---------------------------- MODULE Spec2Model ----------------------------
(***************************************************************************)
(* Insight Mapping: an exploratory-data-analysis report generator.         *)
(*                                                                         *)
(* The module holds                                                        *)
(*   - the data model (a table of typed columns, missing cells),          *)
(*   - the run of main(): load, build_report, the two report writers and   *)
(*     the optional profilers (specification Spec),                        *)
(*   - the pure analysis functions, each applied by an action to inputs    *)
(*     drawn from bounded sets: the cleaning functions (SpecClean), the    *)
(*     chi-squared statistic and Cramer's V of a contingency table         *)
(*     (SpecChi, in float64 arithmetic), the column classifier and the     *)
(*     two correlation matrices (SpecCorr).                                *)
(***************************************************************************)
EXTENDS Integers, Sequences, FiniteSets, TLC

VARIABLES
    pc,          \* position of the run / which function has been applied
    argv,        \* parse_args + the file system: [exists, suffix, profile]
    mods,        \* the optional imports: [px, msno, ProfileReport, sv]
    df,          \* the loaded table (NoTable before load)
    load_result, \* what load_data did
    log,         \* the logger's records, in order: <<level, message>>
    exit_code,   \* Running until the process ends
    files,       \* output file -> number of times it was written
    called,      \* the functions of main.py entered so far, in order
    report,      \* build_report's result (NoReport before it returns)
    profiled,    \* profiler -> "not_attempted" | "ok" | "failed"
    raised,      \* optional visualization backends that raised while rendering
    cm,          \* a contingency table (crosstab), a matrix of counts
    out          \* the result of the pure function applied

vars == <<pc, argv, mods, df, load_result, log, exit_code, files, called,
          report, profiled, raised, cm, out>>



-----------------------------------------------------------------------------
(* Bounds of the model.                                                    *)

MainMaxCols == 2

\* Tables of the analysis specifications: at most MaxCols columns, at most
\* MaxCells cells, values 0..MaxVal.
MaxCols == 2

MaxCells == 4

MaxVal == 1

-----------------------------------------------------------------------------
(* Data model: a table is [nrows, cols], cols a sequence of               *)
(* [name, dtype, vals]; a cell is <<>> (missing: NaN / None / NaT) or <<v>>.*)

NA == << >>

IsNA(x) == x = NA

Cell(v) == <<v>>

Val(x) == x[1]

ColNames == <<"a", "b", "c", "d", "e", "f", "g", "h">>

DTypes == {"int64", "float64", "bool", "object", "datetime64[ns]"}

\* Which dtypes can hold a missing value (int64 and bool columns cannot).
Nullable(dt) == dt \in {"float64", "object", "datetime64[ns]"}

\* The cells of the model: missing, or a value of 0..maxv.
Cells(maxv) == {NA} \cup {Cell(v) : v \in 0..maxv}

\* The table of r rows whose column j is named ColNames[j], has dtype dts[j]
\* and holds the cells vals[j].
MkTable(r, dts, vals) ==
    [nrows |-> r,
     cols |-> [j \in DOMAIN dts |->
                 [name |-> ColNames[j], dtype |-> dts[j], vals |-> vals[j]]]]

\* Every cell is one its column's dtype can hold: only a nullable dtype holds
\* a missing cell, a bool column holds False (0) and True (1).
WellTyped(t) ==
    \A j \in DOMAIN t.cols : \A i \in DOMAIN t.cols[j].vals :
        LET x == t.cols[j].vals[i]
        IN  /\ IsNA(x) => Nullable(t.cols[j].dtype)
            /\ (t.cols[j].dtype = "bool" /\ ~IsNA(x)) => Val(x) \in {0, 1}

NoTable == [nrows |-> 0, cols |-> <<"unloaded">>]

NCols(t) == Len(t.cols)

ColIdx(t) == 1..NCols(t)

-----------------------------------------------------------------------------
(* utils.py: the column classifier.                                        *)

\* pandas.api.types.is_numeric_dtype: integers, floats and also booleans.
is_numeric(dt) == dt \in {"int64", "float64", "bool"}

\* series.nunique(dropna=True)
nunique(col) == Cardinality({col.vals[i] : i \in DOMAIN col.vals} \ {NA})

max_unique == 50

is_categorical(col) ==
    IF col.dtype = "bool" \/ col.dtype = "object" THEN TRUE
    ELSE nunique(col) <= max_unique /\ ~is_numeric(col.dtype)

\* df.columns, as positions in column order.
Columns(t) == [i \in 1..NCols(t) |-> i]

get_numeric_columns(t) ==
    SelectSeq(Columns(t), LAMBDA i : is_numeric(t.cols[i].dtype))

get_categorical_columns(t) ==
    SelectSeq(Columns(t), LAMBDA i : is_categorical(t.cols[i]))

-----------------------------------------------------------------------------
(* main.py: one run of the program (specification Spec).                   *)

Running == -1

NoReport == [built |-> FALSE]

\* A suffix is the sequence of the code points of its characters, the
\* dot (46) included: ".csv" is <<46, 99, 115, 118>>.
csv     == <<46, 99, 115, 118>>
tsv     == <<46, 116, 115, 118>>
txt     == <<46, 116, 120, 116>>
xlsx    == <<46, 120, 108, 115, 120>>
xls     == <<46, 120, 108, 115>>
json    == <<46, 106, 115, 111, 110>>
jsonl   == <<46, 106, 115, 111, 110, 108>>
parquet == <<46, 112, 97, 114, 113, 117, 101, 116>>

\* The simple lower-case mapping of str.lower (Unicode 14.0, the database of
\* CPython 3.11): the code points first, first + step, ..., last map to
\* themselves plus delta; <<first, last, step, delta>>.
LowerRanges ==
    {<<65, 90, 1, 32>>, <<192, 214, 1, 32>>, <<216, 222, 1, 32>>,
     <<256, 302, 2, 1>>, <<306, 310, 2, 1>>, <<313, 327, 2, 1>>,
     <<330, 374, 2, 1>>, <<376, 376, 1, -121>>, <<377, 381, 2, 1>>,
     <<385, 385, 1, 210>>, <<386, 388, 2, 1>>, <<390, 390, 1, 206>>,
     <<391, 391, 1, 1>>, <<393, 394, 1, 205>>, <<395, 395, 1, 1>>,
     <<398, 398, 1, 79>>, <<399, 399, 1, 202>>, <<400, 400, 1, 203>>,
     <<401, 401, 1, 1>>, <<403, 403, 1, 205>>, <<404, 404, 1, 207>>,
     <<406, 406, 1, 211>>, <<407, 407, 1, 209>>, <<408, 408, 1, 1>>,
     <<412, 412, 1, 211>>, <<413, 413, 1, 213>>, <<415, 415, 1, 214>>,
     <<416, 420, 2, 1>>, <<422, 422, 1, 218>>, <<423, 423, 1, 1>>,
     <<425, 425, 1, 218>>, <<428, 428, 1, 1>>, <<430, 430, 1, 218>>,
     <<431, 431, 1, 1>>, <<433, 434, 1, 217>>, <<435, 437, 2, 1>>,
     <<439, 439, 1, 219>>, <<440, 440, 1, 1>>, <<444, 444, 1, 1>>,
     <<452, 452, 1, 2>>, <<453, 453, 1, 1>>, <<455, 455, 1, 2>>,
     <<456, 456, 1, 1>>, <<458, 458, 1, 2>>, <<459, 475, 2, 1>>,
     <<478, 494, 2, 1>>, <<497, 497, 1, 2>>, <<498, 500, 2, 1>>,
     <<502, 502, 1, -97>>, <<503, 503, 1, -56>>, <<504, 542, 2, 1>>,
     <<544, 544, 1, -130>>, <<546, 562, 2, 1>>, <<570, 570, 1, 10795>>,
     <<571, 571, 1, 1>>, <<573, 573, 1, -163>>, <<574, 574, 1, 10792>>,
     <<577, 577, 1, 1>>, <<579, 579, 1, -195>>, <<580, 580, 1, 69>>,
     <<581, 581, 1, 71>>, <<582, 590, 2, 1>>, <<880, 882, 2, 1>>,
     <<886, 886, 1, 1>>, <<895, 895, 1, 116>>, <<902, 902, 1, 38>>,
     <<904, 906, 1, 37>>, <<908, 908, 1, 64>>, <<910, 911, 1, 63>>,
     <<913, 929, 1, 32>>, <<931, 939, 1, 32>>, <<975, 975, 1, 8>>,
     <<984, 1006, 2, 1>>, <<1012, 1012, 1, -60>>, <<1015, 1015, 1, 1>>,
     <<1017, 1017, 1, -7>>, <<1018, 1018, 1, 1>>, <<1021, 1023, 1, -130>>,
     <<1024, 1039, 1, 80>>, <<1040, 1071, 1, 32>>, <<1120, 1152, 2, 1>>,
     <<1162, 1214, 2, 1>>, <<1216, 1216, 1, 15>>, <<1217, 1229, 2, 1>>,
     <<1232, 1326, 2, 1>>, <<1329, 1366, 1, 48>>, <<4256, 4293, 1, 7264>>,
     <<4295, 4295, 1, 7264>>, <<4301, 4301, 1, 7264>>,
     <<5024, 5103, 1, 38864>>, <<5104, 5109, 1, 8>>,
     <<7312, 7354, 1, -3008>>, <<7357, 7359, 1, -3008>>,
     <<7680, 7828, 2, 1>>, <<7838, 7838, 1, -7615>>, <<7840, 7934, 2, 1>>,
     <<7944, 7951, 1, -8>>, <<7960, 7965, 1, -8>>, <<7976, 7983, 1, -8>>,
     <<7992, 7999, 1, -8>>, <<8008, 8013, 1, -8>>, <<8025, 8031, 2, -8>>,
     <<8040, 8047, 1, -8>>, <<8072, 8079, 1, -8>>, <<8088, 8095, 1, -8>>,
     <<8104, 8111, 1, -8>>, <<8120, 8121, 1, -8>>, <<8122, 8123, 1, -74>>,
     <<8124, 8124, 1, -9>>, <<8136, 8139, 1, -86>>, <<8140, 8140, 1, -9>>,
     <<8152, 8153, 1, -8>>, <<8154, 8155, 1, -100>>, <<8168, 8169, 1, -8>>,
     <<8170, 8171, 1, -112>>, <<8172, 8172, 1, -7>>, <<8184, 8185, 1, -128>>,
     <<8186, 8187, 1, -126>>, <<8188, 8188, 1, -9>>,
     <<8486, 8486, 1, -7517>>, <<8490, 8490, 1, -8383>>,
     <<8491, 8491, 1, -8262>>, <<8498, 8498, 1, 28>>, <<8544, 8559, 1, 16>>,
     <<8579, 8579, 1, 1>>, <<9398, 9423, 1, 26>>, <<11264, 11311, 1, 48>>,
     <<11360, 11360, 1, 1>>, <<11362, 11362, 1, -10743>>,
     <<11363, 11363, 1, -3814>>, <<11364, 11364, 1, -10727>>,
     <<11367, 11371, 2, 1>>, <<11373, 11373, 1, -10780>>,
     <<11374, 11374, 1, -10749>>, <<11375, 11375, 1, -10783>>,
     <<11376, 11376, 1, -10782>>, <<11378, 11378, 1, 1>>,
     <<11381, 11381, 1, 1>>, <<11390, 11391, 1, -10815>>,
     <<11392, 11490, 2, 1>>, <<11499, 11501, 2, 1>>, <<11506, 11506, 1, 1>>,
     <<42560, 42604, 2, 1>>, <<42624, 42650, 2, 1>>, <<42786, 42798, 2, 1>>,
     <<42802, 42862, 2, 1>>, <<42873, 42875, 2, 1>>,
     <<42877, 42877, 1, -35332>>, <<42878, 42886, 2, 1>>,
     <<42891, 42891, 1, 1>>, <<42893, 42893, 1, -42280>>,
     <<42896, 42898, 2, 1>>, <<42902, 42920, 2, 1>>,
     <<42922, 42922, 1, -42308>>, <<42923, 42923, 1, -42319>>,
     <<42924, 42924, 1, -42315>>, <<42925, 42925, 1, -42305>>,
     <<42926, 42926, 1, -42308>>, <<42928, 42928, 1, -42258>>,
     <<42929, 42929, 1, -42282>>, <<42930, 42930, 1, -42261>>,
     <<42931, 42931, 1, 928>>, <<42932, 42946, 2, 1>>,
     <<42948, 42948, 1, -48>>, <<42949, 42949, 1, -42307>>,
     <<42950, 42950, 1, -35384>>, <<42951, 42953, 2, 1>>,
     <<42960, 42960, 1, 1>>, <<42966, 42968, 2, 1>>, <<42997, 42997, 1, 1>>,
     <<65313, 65338, 1, 32>>, <<66560, 66599, 1, 40>>,
     <<66736, 66771, 1, 40>>, <<66928, 66938, 1, 39>>,
     <<66940, 66954, 1, 39>>, <<66956, 66962, 1, 39>>,
     <<66964, 66965, 1, 39>>, <<68736, 68786, 1, 64>>,
     <<71840, 71871, 1, 32>>, <<93760, 93791, 1, 32>>,
     <<125184, 125217, 1, 34>>}

\* The code points that are cased and not case-ignorable, <<first, last>>.
CasedRanges ==
    {<<65, 90>>, <<97, 122>>, <<170, 170>>, <<181, 181>>, <<186, 186>>,
     <<192, 214>>, <<216, 246>>, <<248, 442>>, <<444, 447>>, <<452, 659>>,
     <<661, 687>>, <<880, 883>>, <<886, 887>>, <<891, 893>>, <<895, 895>>,
     <<902, 902>>, <<904, 906>>, <<908, 908>>, <<910, 929>>, <<931, 1013>>,
     <<1015, 1153>>, <<1162, 1327>>, <<1329, 1366>>, <<1376, 1416>>,
     <<4256, 4293>>, <<4295, 4295>>, <<4301, 4301>>, <<4304, 4346>>,
     <<4349, 4351>>, <<5024, 5109>>, <<5112, 5117>>, <<7296, 7304>>,
     <<7312, 7354>>, <<7357, 7359>>, <<7424, 7467>>, <<7531, 7543>>,
     <<7545, 7578>>, <<7680, 7957>>, <<7960, 7965>>, <<7968, 8005>>,
     <<8008, 8013>>, <<8016, 8023>>, <<8025, 8025>>, <<8027, 8027>>,
     <<8029, 8029>>, <<8031, 8061>>, <<8064, 8116>>, <<8118, 8124>>,
     <<8126, 8126>>, <<8130, 8132>>, <<8134, 8140>>, <<8144, 8147>>,
     <<8150, 8155>>, <<8160, 8172>>, <<8178, 8180>>, <<8182, 8188>>,
     <<8450, 8450>>, <<8455, 8455>>, <<8458, 8467>>, <<8469, 8469>>,
     <<8473, 8477>>, <<8484, 8484>>, <<8486, 8486>>, <<8488, 8488>>,
     <<8490, 8493>>, <<8495, 8500>>, <<8505, 8505>>, <<8508, 8511>>,
     <<8517, 8521>>, <<8526, 8526>>, <<8544, 8575>>, <<8579, 8580>>,
     <<9398, 9449>>, <<11264, 11387>>, <<11390, 11492>>, <<11499, 11502>>,
     <<11506, 11507>>, <<11520, 11557>>, <<11559, 11559>>, <<11565, 11565>>,
     <<42560, 42605>>, <<42624, 42651>>, <<42786, 42863>>, <<42865, 42887>>,
     <<42891, 42894>>, <<42896, 42954>>, <<42960, 42961>>, <<42963, 42963>>,
     <<42965, 42969>>, <<42997, 42998>>, <<43002, 43002>>, <<43824, 43866>>,
     <<43872, 43880>>, <<43888, 43967>>, <<64256, 64262>>, <<64275, 64279>>,
     <<65313, 65338>>, <<65345, 65370>>, <<66560, 66639>>, <<66736, 66771>>,
     <<66776, 66811>>, <<66928, 66938>>, <<66940, 66954>>, <<66956, 66962>>,
     <<66964, 66965>>, <<66967, 66977>>, <<66979, 66993>>, <<66995, 67001>>,
     <<67003, 67004>>, <<68736, 68786>>, <<68800, 68850>>, <<71840, 71903>>,
     <<93760, 93823>>, <<119808, 119892>>, <<119894, 119964>>,
     <<119966, 119967>>, <<119970, 119970>>, <<119973, 119974>>,
     <<119977, 119980>>, <<119982, 119993>>, <<119995, 119995>>,
     <<119997, 120003>>, <<120005, 120069>>, <<120071, 120074>>,
     <<120077, 120084>>, <<120086, 120092>>, <<120094, 120121>>,
     <<120123, 120126>>, <<120128, 120132>>, <<120134, 120134>>,
     <<120138, 120144>>, <<120146, 120485>>, <<120488, 120512>>,
     <<120514, 120538>>, <<120540, 120570>>, <<120572, 120596>>,
     <<120598, 120628>>, <<120630, 120654>>, <<120656, 120686>>,
     <<120688, 120712>>, <<120714, 120744>>, <<120746, 120770>>,
     <<120772, 120779>>, <<122624, 122633>>, <<122635, 122654>>,
     <<125184, 125251>>, <<127280, 127305>>, <<127312, 127337>>,
     <<127344, 127369>>}

\* The case-ignorable code points, <<first, last>>.
CaseIgnorableRanges ==
    {<<39, 39>>, <<46, 46>>, <<58, 58>>, <<94, 94>>, <<96, 96>>,
     <<168, 168>>, <<173, 173>>, <<175, 175>>, <<180, 180>>, <<183, 184>>,
     <<688, 879>>, <<884, 885>>, <<890, 890>>, <<900, 901>>, <<903, 903>>,
     <<1155, 1161>>, <<1369, 1369>>, <<1375, 1375>>, <<1425, 1469>>,
     <<1471, 1471>>, <<1473, 1474>>, <<1476, 1477>>, <<1479, 1479>>,
     <<1524, 1524>>, <<1536, 1541>>, <<1552, 1562>>, <<1564, 1564>>,
     <<1600, 1600>>, <<1611, 1631>>, <<1648, 1648>>, <<1750, 1757>>,
     <<1759, 1768>>, <<1770, 1773>>, <<1807, 1807>>, <<1809, 1809>>,
     <<1840, 1866>>, <<1958, 1968>>, <<2027, 2037>>, <<2042, 2042>>,
     <<2045, 2045>>, <<2070, 2093>>, <<2137, 2139>>, <<2184, 2184>>,
     <<2192, 2193>>, <<2200, 2207>>, <<2249, 2306>>, <<2362, 2362>>,
     <<2364, 2364>>, <<2369, 2376>>, <<2381, 2381>>, <<2385, 2391>>,
     <<2402, 2403>>, <<2417, 2417>>, <<2433, 2433>>, <<2492, 2492>>,
     <<2497, 2500>>, <<2509, 2509>>, <<2530, 2531>>, <<2558, 2558>>,
     <<2561, 2562>>, <<2620, 2620>>, <<2625, 2626>>, <<2631, 2632>>,
     <<2635, 2637>>, <<2641, 2641>>, <<2672, 2673>>, <<2677, 2677>>,
     <<2689, 2690>>, <<2748, 2748>>, <<2753, 2757>>, <<2759, 2760>>,
     <<2765, 2765>>, <<2786, 2787>>, <<2810, 2815>>, <<2817, 2817>>,
     <<2876, 2876>>, <<2879, 2879>>, <<2881, 2884>>, <<2893, 2893>>,
     <<2901, 2902>>, <<2914, 2915>>, <<2946, 2946>>, <<3008, 3008>>,
     <<3021, 3021>>, <<3072, 3072>>, <<3076, 3076>>, <<3132, 3132>>,
     <<3134, 3136>>, <<3142, 3144>>, <<3146, 3149>>, <<3157, 3158>>,
     <<3170, 3171>>, <<3201, 3201>>, <<3260, 3260>>, <<3263, 3263>>,
     <<3270, 3270>>, <<3276, 3277>>, <<3298, 3299>>, <<3328, 3329>>,
     <<3387, 3388>>, <<3393, 3396>>, <<3405, 3405>>, <<3426, 3427>>,
     <<3457, 3457>>, <<3530, 3530>>, <<3538, 3540>>, <<3542, 3542>>,
     <<3633, 3633>>, <<3636, 3642>>, <<3654, 3662>>, <<3761, 3761>>,
     <<3764, 3772>>, <<3782, 3782>>, <<3784, 3789>>, <<3864, 3865>>,
     <<3893, 3893>>, <<3895, 3895>>, <<3897, 3897>>, <<3953, 3966>>,
     <<3968, 3972>>, <<3974, 3975>>, <<3981, 3991>>, <<3993, 4028>>,
     <<4038, 4038>>, <<4141, 4144>>, <<4146, 4151>>, <<4153, 4154>>,
     <<4157, 4158>>, <<4184, 4185>>, <<4190, 4192>>, <<4209, 4212>>,
     <<4226, 4226>>, <<4229, 4230>>, <<4237, 4237>>, <<4253, 4253>>,
     <<4348, 4348>>, <<4957, 4959>>, <<5906, 5908>>, <<5938, 5939>>,
     <<5970, 5971>>, <<6002, 6003>>, <<6068, 6069>>, <<6071, 6077>>,
     <<6086, 6086>>, <<6089, 6099>>, <<6103, 6103>>, <<6109, 6109>>,
     <<6155, 6159>>, <<6211, 6211>>, <<6277, 6278>>, <<6313, 6313>>,
     <<6432, 6434>>, <<6439, 6440>>, <<6450, 6450>>, <<6457, 6459>>,
     <<6679, 6680>>, <<6683, 6683>>, <<6742, 6742>>, <<6744, 6750>>,
     <<6752, 6752>>, <<6754, 6754>>, <<6757, 6764>>, <<6771, 6780>>,
     <<6783, 6783>>, <<6823, 6823>>, <<6832, 6862>>, <<6912, 6915>>,
     <<6964, 6964>>, <<6966, 6970>>, <<6972, 6972>>, <<6978, 6978>>,
     <<7019, 7027>>, <<7040, 7041>>, <<7074, 7077>>, <<7080, 7081>>,
     <<7083, 7085>>, <<7142, 7142>>, <<7144, 7145>>, <<7149, 7149>>,
     <<7151, 7153>>, <<7212, 7219>>, <<7222, 7223>>, <<7288, 7293>>,
     <<7376, 7378>>, <<7380, 7392>>, <<7394, 7400>>, <<7405, 7405>>,
     <<7412, 7412>>, <<7416, 7417>>, <<7468, 7530>>, <<7544, 7544>>,
     <<7579, 7679>>, <<8125, 8125>>, <<8127, 8129>>, <<8141, 8143>>,
     <<8157, 8159>>, <<8173, 8175>>, <<8189, 8190>>, <<8203, 8207>>,
     <<8216, 8217>>, <<8228, 8228>>, <<8231, 8231>>, <<8234, 8238>>,
     <<8288, 8292>>, <<8294, 8303>>, <<8305, 8305>>, <<8319, 8319>>,
     <<8336, 8348>>, <<8400, 8432>>, <<11388, 11389>>, <<11503, 11505>>,
     <<11631, 11631>>, <<11647, 11647>>, <<11744, 11775>>, <<11823, 11823>>,
     <<12293, 12293>>, <<12330, 12333>>, <<12337, 12341>>, <<12347, 12347>>,
     <<12441, 12446>>, <<12540, 12542>>, <<40981, 40981>>, <<42232, 42237>>,
     <<42508, 42508>>, <<42607, 42610>>, <<42612, 42621>>, <<42623, 42623>>,
     <<42652, 42655>>, <<42736, 42737>>, <<42752, 42785>>, <<42864, 42864>>,
     <<42888, 42890>>, <<42994, 42996>>, <<43000, 43001>>, <<43010, 43010>>,
     <<43014, 43014>>, <<43019, 43019>>, <<43045, 43046>>, <<43052, 43052>>,
     <<43204, 43205>>, <<43232, 43249>>, <<43263, 43263>>, <<43302, 43309>>,
     <<43335, 43345>>, <<43392, 43394>>, <<43443, 43443>>, <<43446, 43449>>,
     <<43452, 43453>>, <<43471, 43471>>, <<43493, 43494>>, <<43561, 43566>>,
     <<43569, 43570>>, <<43573, 43574>>, <<43587, 43587>>, <<43596, 43596>>,
     <<43632, 43632>>, <<43644, 43644>>, <<43696, 43696>>, <<43698, 43700>>,
     <<43703, 43704>>, <<43710, 43711>>, <<43713, 43713>>, <<43741, 43741>>,
     <<43756, 43757>>, <<43763, 43764>>, <<43766, 43766>>, <<43867, 43871>>,
     <<43881, 43883>>, <<44005, 44005>>, <<44008, 44008>>, <<44013, 44013>>,
     <<64286, 64286>>, <<64434, 64450>>, <<65024, 65039>>, <<65043, 65043>>,
     <<65056, 65071>>, <<65106, 65106>>, <<65109, 65109>>, <<65279, 65279>>,
     <<65287, 65287>>, <<65294, 65294>>, <<65306, 65306>>, <<65342, 65342>>,
     <<65344, 65344>>, <<65392, 65392>>, <<65438, 65439>>, <<65507, 65507>>,
     <<65529, 65531>>, <<66045, 66045>>, <<66272, 66272>>, <<66422, 66426>>,
     <<67456, 67461>>, <<67463, 67504>>, <<67506, 67514>>, <<68097, 68099>>,
     <<68101, 68102>>, <<68108, 68111>>, <<68152, 68154>>, <<68159, 68159>>,
     <<68325, 68326>>, <<68900, 68903>>, <<69291, 69292>>, <<69446, 69456>>,
     <<69506, 69509>>, <<69633, 69633>>, <<69688, 69702>>, <<69744, 69744>>,
     <<69747, 69748>>, <<69759, 69761>>, <<69811, 69814>>, <<69817, 69818>>,
     <<69821, 69821>>, <<69826, 69826>>, <<69837, 69837>>, <<69888, 69890>>,
     <<69927, 69931>>, <<69933, 69940>>, <<70003, 70003>>, <<70016, 70017>>,
     <<70070, 70078>>, <<70089, 70092>>, <<70095, 70095>>, <<70191, 70193>>,
     <<70196, 70196>>, <<70198, 70199>>, <<70206, 70206>>, <<70367, 70367>>,
     <<70371, 70378>>, <<70400, 70401>>, <<70459, 70460>>, <<70464, 70464>>,
     <<70502, 70508>>, <<70512, 70516>>, <<70712, 70719>>, <<70722, 70724>>,
     <<70726, 70726>>, <<70750, 70750>>, <<70835, 70840>>, <<70842, 70842>>,
     <<70847, 70848>>, <<70850, 70851>>, <<71090, 71093>>, <<71100, 71101>>,
     <<71103, 71104>>, <<71132, 71133>>, <<71219, 71226>>, <<71229, 71229>>,
     <<71231, 71232>>, <<71339, 71339>>, <<71341, 71341>>, <<71344, 71349>>,
     <<71351, 71351>>, <<71453, 71455>>, <<71458, 71461>>, <<71463, 71467>>,
     <<71727, 71735>>, <<71737, 71738>>, <<71995, 71996>>, <<71998, 71998>>,
     <<72003, 72003>>, <<72148, 72151>>, <<72154, 72155>>, <<72160, 72160>>,
     <<72193, 72202>>, <<72243, 72248>>, <<72251, 72254>>, <<72263, 72263>>,
     <<72273, 72278>>, <<72281, 72283>>, <<72330, 72342>>, <<72344, 72345>>,
     <<72752, 72758>>, <<72760, 72765>>, <<72767, 72767>>, <<72850, 72871>>,
     <<72874, 72880>>, <<72882, 72883>>, <<72885, 72886>>, <<73009, 73014>>,
     <<73018, 73018>>, <<73020, 73021>>, <<73023, 73029>>, <<73031, 73031>>,
     <<73104, 73105>>, <<73109, 73109>>, <<73111, 73111>>, <<73459, 73460>>,
     <<78896, 78904>>, <<92912, 92916>>, <<92976, 92982>>, <<92992, 92995>>,
     <<94031, 94031>>, <<94095, 94111>>, <<94176, 94177>>, <<94179, 94180>>,
     <<110576, 110579>>, <<110581, 110587>>, <<110589, 110590>>,
     <<113821, 113822>>, <<113824, 113827>>, <<118528, 118573>>,
     <<118576, 118598>>, <<119143, 119145>>, <<119155, 119170>>,
     <<119173, 119179>>, <<119210, 119213>>, <<119362, 119364>>,
     <<121344, 121398>>, <<121403, 121452>>, <<121461, 121461>>,
     <<121476, 121476>>, <<121499, 121503>>, <<121505, 121519>>,
     <<122880, 122886>>, <<122888, 122904>>, <<122907, 122913>>,
     <<122915, 122916>>, <<122918, 122922>>, <<123184, 123197>>,
     <<123566, 123566>>, <<123628, 123631>>, <<125136, 125142>>,
     <<125252, 125259>>, <<127995, 127999>>, <<917505, 917505>>,
     <<917536, 917631>>, <<917760, 917999>>}

InRange(c, r) == r[1] <= c /\ c <= r[2]

InLowerRange(c, r) == InRange(c, r) /\ (c - r[1]) % r[3] = 0

cased(c) == \E r \in CasedRanges : InRange(c, r)

case_ignorable(c) == \E r \in CaseIgnorableRanges : InRange(c, r)

\* The lower case of one code point by itself: U+0130 becomes two code
\* points, a code point of LowerRanges is shifted, any other is kept.
ToLower(c) ==
    IF c = 304 THEN <<105, 775>>
    ELSE IF \E r \in LowerRanges : InLowerRange(c, r)
    THEN <<c + (CHOOSE r \in LowerRanges : InLowerRange(c, r))[4]>>
    ELSE <<c>>

\* Skipping case-ignorable code points backwards from position j (forwards
\* for NextCased), the first other code point is cased.
RECURSIVE PrevCased(_, _)
PrevCased(s, j) ==
    IF j < 1 THEN FALSE
    ELSE IF case_ignorable(s[j]) THEN PrevCased(s, j - 1)
    ELSE cased(s[j])

RECURSIVE NextCased(_, _)
NextCased(s, j) ==
    IF j > Len(s) THEN FALSE
    ELSE IF case_ignorable(s[j]) THEN NextCased(s, j + 1)
    ELSE cased(s[j])

\* A capital sigma (U+03A3) at position i ends a word: it follows a cased
\* letter and no cased letter follows it.
final_sigma(s, i) == PrevCased(s, i - 1) /\ ~NextCased(s, i + 1)

\* The lower case of the code point at position i of s.
lower_at(s, i) ==
    IF s[i] = 931
    THEN IF final_sigma(s, i) THEN <<962>> ELSE <<963>>
    ELSE ToLower(s[i])

RECURSIVE LowerFrom(_, _)
LowerFrom(s, i) ==
    IF i > Len(s) THEN << >> ELSE lower_at(s, i) \o LowerFrom(s, i + 1)

\* str.lower
str_lower(s) == LowerFrom(s, 1)

\* file_path.suffix.lower()
suffix_lower(suffix) == str_lower(suffix)

\* The branch of load_data a lower-case suffix takes.
ReaderOf(suffix) ==
    CASE suffix \in {csv, tsv, txt} -> "csv"
      [] suffix \in {xlsx, xls}     -> "excel"
      [] suffix \in {json, jsonl}   -> "json"
      [] suffix = parquet           -> "parquet"
      [] OTHER                      -> "unsupported"

\* data_loader.load_data: the suffix, in lower case, decides the reader and
\* the file type.
FileType(suffix) == ReaderOf(suffix_lower(suffix))

\* The variable part of the message of the ValueError load_data raises,
\* "Unsupported file type: {suffix}. Use CSV, Excel, JSON, or Parquet.":
\* the suffix in lower case.
unsupported_message(suffix) == suffix_lower(suffix)

\* One suffix per branch of load_data, one of them also in upper case
\* (".CSV"), and suffixes that no branch takes: ".dat", ".DAT", ".CS\u00c9"
\* (lower case ".cs\u00e9") and ".\u0391\u03a3" (alpha, final sigma).
Suffixes == {csv, xlsx, json, parquet, <<46, 67, 83, 86>>,
             <<46, 100, 97, 116>>, <<46, 68, 65, 84>>,
             <<46, 67, 83, 201>>, <<46, 913, 931>>}

\* df.describe(include="all") raises ValueError for a frame without columns
\* ("Cannot describe a DataFrame without columns").
describe_raises(t) == NCols(t) = 0

\* load_data returns: a table of one row and up to MainMaxCols columns.
Loads(t) ==
    \E c \in 0..MainMaxCols :
        \E dts \in [1..c -> {"int64", "object"}] :
            t = MkTable(1, dts, [j \in 1..c |-> <<Cell(0)>>])

OutFiles == {"report.json", "report.html", "profiling_report.html",
             "sweetviz_report.html", "interactive_scatter.html",
             "missing_matrix.png", "missing_bar.png"}

Logged(level, msg) == log' = Append(log, <<level, msg>>)

\* A record whose message has a variable part arg.
LoggedWith(level, msg, arg) == log' = Append(log, <<level, msg, arg>>)

HasLog(level, msg) == \E i \in DOMAIN log : log[i] = <<level, msg>>

Wrote(f) == files' = [files EXCEPT ![f] = @ + 1]

Enter(fn) == called' = Append(called, fn)

Entered(fn) == \E i \in DOMAIN called : called[i] = fn

InitRun ==
    /\ pc = "start"
    /\ argv \in [exists : BOOLEAN, suffix : Suffixes, profile : BOOLEAN]
    /\ mods \in [px : BOOLEAN, msno : BOOLEAN, ProfileReport : BOOLEAN,
                 sv : BOOLEAN]
    /\ df = NoTable
    /\ load_result = "none"
    /\ log = << >>
    /\ exit_code = Running
    /\ files = [f \in OutFiles |-> 0]
    /\ called = << >>
    /\ report = NoReport
    /\ profiled = [p \in {"ydata", "sweetviz"} |-> "not_attempted"]
    /\ raised = {}
    /\ cm = << >>
    /\ out = << >>

\* main, lines 151-159: parse_args, setup_logging, the first log record.
Start ==
    /\ pc = "start"
    /\ pc' = "load"
    /\ Logged("INFO", "Starting Insight Mapping EDA Engine")
    /\ Enter("main")
    /\ UNCHANGED <<argv, mods, df, load_result, exit_code, files, report,
                   profiled, raised, cm, out>>

\* sys.exit(1) after logger.error in one of main's two except clauses; arg
\* is what the record says beside the fixed text: of the input path its
\* suffix, of load_data's ValueError the suffix in lower case, of a reader's
\* ValueError nothing the model holds.
ExitWithError(result, msg, arg) ==
    /\ load_result' = result
    /\ LoggedWith("ERROR", msg, arg)
    /\ exit_code' = 1
    /\ pc' = "exited"
    /\ UNCHANGED df

\* An exception main does not catch: the interpreter prints the traceback
\* and the process ends with status 1.
Uncaught ==
    /\ exit_code' = 1
    /\ pc' = "crashed"

\* A load failure is logged but the run goes on to build_report.
LoadDataNoExit ==
    /\ pc = "load"
    /\ Enter("load_data")
    /\ IF ~argv.exists \/ FileType(argv.suffix) = "unsupported"
       THEN /\ load_result' = IF ~argv.exists THEN "FileNotFoundError"
                              ELSE "ValueError"
            /\ Logged("ERROR", "load failed")
            /\ pc' = "build"
            /\ df' = [nrows |-> 0, cols |-> << >>]
            /\ UNCHANGED exit_code
       ELSE /\ Loads(df')
            /\ load_result' = "ok"
            /\ Logged("INFO", "Loaded dataset")
            /\ pc' = "build"
            /\ UNCHANGED exit_code
    /\ UNCHANGED <<argv, mods, files, report, profiled, raised, cm, out>>

\* main, lines 161-169, with load_data (data_loader.py, lines 16-63).
LoadData ==
    /\ pc = "load"
    /\ Enter("load_data")
    /\ IF ~argv.exists
       THEN ExitWithError("FileNotFoundError", "File not found", argv.suffix)
       ELSE IF FileType(argv.suffix) = "unsupported"
       THEN ExitWithError("ValueError", "Unsupported file format",
                            unsupported_message(argv.suffix))
       ELSE \/ /\ Loads(df')
               /\ load_result' = "ok"
               /\ Logged("INFO", "Loaded dataset")
               /\ pc' = "build"
               /\ UNCHANGED exit_code
            \* the reader rejects the content with a ValueError (a parser
            \* error, a JSON decode error): main's second except clause
            \/ ExitWithError("ReaderValueError", "Unsupported file format",
                            << >>)
            \* the reader fails otherwise (no permission, no engine)
            \/ /\ load_result' = "ReaderError"
               /\ Uncaught
               /\ UNCHANGED <<df, log>>
    /\ UNCHANGED <<argv, mods, files, report, profiled, raised, cm, out>>

\* correlation_analysis.numeric_correlation: the labels of the matrix
\* (empty when there is no numeric column).
NumericLabels(t) == get_numeric_columns(t)

\* correlation_analysis.categorical_correlation: the labels of the matrix
\* (empty when there are fewer than two categorical columns).
CategoricalLabels(t) ==
    IF Len(get_categorical_columns(t)) < 2 THEN << >>
    ELSE get_categorical_columns(t)

ChartKinds == {"Histograms", "Boxplots", "Violin Plots", "Pairplot",
               "Bar Charts", "Numeric Correlation Heatmap",
               "Categorical Correlation Heatmap", "Interactive Scatter",
               "Missing Value Matrix"}

\* One artifact <<prefix, column name>> per listed column.
PerColumn(t, prefix, idx) ==
    [i \in DOMAIN idx |-> <<prefix, t.cols[idx[i]].name>>]

\* build_report returns after the summaries, without rendering a chart.
BuildSummariesSkipCharts ==
    /\ pc = "build"
    /\ Enter("build_report")
    /\ IF describe_raises(df)
       THEN /\ Uncaught
            /\ UNCHANGED report
       ELSE /\ pc' = "json"
            /\ report' = [built |-> FALSE,
                          rows |-> df.nrows,
                          columns |-> NCols(df),
                          numeric_corr |-> NumericLabels(df),
                          categorical_corr |-> CategoricalLabels(df),
                          visuals |-> [k \in ChartKinds |-> << >>]]
            /\ UNCHANGED exit_code
    /\ UNCHANGED <<argv, mods, df, load_result, log, files, profiled, raised,
                   cm, out>>

\* build_report, lines 44-58: the output directory, the dataset summary,
\* the three summaries and the two correlation matrices (kept by shape).
\* The ValueError of describe_dataframe on a table without columns is not
\* caught by build_report or main.
BuildSummaries ==
    /\ pc = "build"
    /\ Enter("build_report")
    /\ IF describe_raises(df)
       THEN /\ Uncaught
            /\ UNCHANGED report
       ELSE /\ pc' = "charts"
            /\ report' = [built |-> FALSE,
                          rows |-> df.nrows,
                          columns |-> NCols(df),
                          numeric_corr |-> NumericLabels(df),
                          categorical_corr |-> CategoricalLabels(df),
                          visuals |-> [k \in ChartKinds |-> << >>]]
            /\ UNCHANGED exit_code
    /\ UNCHANGED <<argv, mods, df, load_result, log, files, profiled, raised,
                   cm, out>>

\* build_report, lines 61-75: the matplotlib/seaborn charts
\* (visualization.py, lines 39-99).
RenderStatic ==
    /\ pc = "charts"
    /\ pc' = "scatter"
    /\ LET num == get_numeric_columns(df)
           cat == get_categorical_columns(df)
       IN report' = [report EXCEPT !.visuals =
            [k \in ChartKinds |->
                CASE k = "Histograms"   -> PerColumn(df, "hist", num)
                  [] k = "Boxplots"     -> PerColumn(df, "box", num)
                  [] k = "Violin Plots" -> PerColumn(df, "violin", num)
                  [] k = "Pairplot" ->
                        IF Len(num) < 2 THEN << >> ELSE <<"pairplot.png">>
                  [] k = "Bar Charts"   -> PerColumn(df, "bar", cat)
                  [] k = "Numeric Correlation Heatmap" ->
                        IF report.numeric_corr = << >> THEN << >>
                        ELSE <<"corr_numeric.png">>
                  [] k = "Categorical Correlation Heatmap" ->
                        IF report.categorical_corr = << >> THEN << >>
                        ELSE <<"corr_categorical.png">>
                  [] OTHER -> << >>]]
    /\ UNCHANGED <<argv, mods, df, load_result, log, exit_code, files,
                   called, profiled, raised, cm, out>>

\* build_report, lines 76-78, with visualization.interactive_scatter
\* (lines 102-111): no artifact without plotly or with fewer than two
\* numeric columns; px.scatter and fig.write_html run unguarded.
InteractiveScatter ==
    /\ pc = "scatter"
    /\ IF ~mods.px \/ Len(get_numeric_columns(df)) < 2
       THEN /\ pc' = "missing_matrix"
            /\ UNCHANGED <<report, files, raised, exit_code>>
       ELSE \/ /\ pc' = "missing_matrix"
               /\ Wrote("interactive_scatter.html")
               /\ report' = [report EXCEPT
                    !.visuals["Interactive Scatter"] =
                        <<"interactive_scatter.html">>]
               /\ UNCHANGED <<raised, exit_code>>
            \/ /\ raised' = raised \cup {"plotly"}
               /\ Uncaught
               /\ UNCHANGED <<report, files>>
    /\ UNCHANGED <<argv, mods, df, load_result, log, called, profiled, cm,
                   out>>

\* build_report, lines 79-99, with cleaning_insights.plot_missing_values
\* (lines 64-73): no artifact without missingno; msno.matrix and
\* fig.savefig run unguarded.  Then the report is assembled and returned.
PlotMissingValues ==
    /\ pc = "missing_matrix"
    /\ \/ /\ ~mods.msno
          /\ pc' = "json"
          /\ report' = [report EXCEPT !.built = TRUE]
          /\ Logged("INFO", "Report data built successfully")
          /\ UNCHANGED <<files, raised, exit_code>>
       \/ /\ mods.msno
          /\ pc' = "json"
          /\ Wrote("missing_matrix.png")
          /\ report' = [report EXCEPT
                !.built = TRUE,
                !.visuals["Missing Value Matrix"] = <<"missing_matrix.png">>]
          /\ Logged("INFO", "Report data built successfully")
          /\ UNCHANGED <<raised, exit_code>>
       \/ /\ mods.msno
          /\ raised' = raised \cup {"missingno"}
          /\ Uncaught
          /\ UNCHANGED <<report, files, log>>
    /\ UNCHANGED <<argv, mods, df, load_result, called, profiled, cm, out>>

\* main, line 172: report_generator.generate_json_report.
GenerateJsonReport ==
    /\ pc = "json"
    /\ pc' = "html"
    /\ Enter("generate_json_report")
    /\ Wrote("report.json")
    /\ UNCHANGED <<argv, mods, df, load_result, log, exit_code, report,
                   profiled, raised, cm, out>>

\* main, lines 173-176: report_generator.generate_html_report and the two
\* log records.
GenerateHtmlReport ==
    /\ pc = "html"
    /\ pc' = IF argv.profile THEN "profile_ydata" ELSE "finish"
    /\ Enter("generate_html_report")
    /\ Wrote("report.html")
    /\ log' = log \o <<(<<"INFO", "JSON report saved">>),
                       (<<"INFO", "HTML report saved">>)>>
    /\ UNCHANGED <<argv, mods, df, load_result, exit_code, report,
                   profiled, raised, cm, out>>

\* The first profiler without its try/except: the exception leaves
\* generate_profile_reports and main.
ProfileYdataUnguarded ==
    /\ pc = "profile_ydata"
    /\ Enter("generate_profile_reports")
    /\ IF ~mods.ProfileReport
       THEN /\ pc' = "profile_sweetviz"
            /\ UNCHANGED <<profiled, files, log, exit_code>>
       ELSE \/ /\ pc' = "profile_sweetviz"
               /\ profiled' = [profiled EXCEPT !["ydata"] = "ok"]
               /\ Wrote("profiling_report.html")
               /\ Logged("INFO", "Generated ydata-profiling report")
               /\ UNCHANGED exit_code
            \/ /\ profiled' = [profiled EXCEPT !["ydata"] = "failed"]
               /\ Uncaught
               /\ UNCHANGED <<files, log>>
    /\ UNCHANGED <<argv, mods, df, load_result, report, raised, cm, out>>

\* generate_profile_reports, lines 104-110: ydata-profiling in its
\* try/except.
ProfileYdata ==
    /\ pc = "profile_ydata"
    /\ pc' = "profile_sweetviz"
    /\ Enter("generate_profile_reports")
    /\ IF ~mods.ProfileReport
       THEN UNCHANGED <<profiled, files, log>>
       ELSE \/ /\ profiled' = [profiled EXCEPT !["ydata"] = "ok"]
               /\ Wrote("profiling_report.html")
               /\ Logged("INFO", "Generated ydata-profiling report")
            \/ /\ profiled' = [profiled EXCEPT !["ydata"] = "failed"]
               /\ Logged("WARNING", "Failed to generate ydata-profiling report")
               /\ UNCHANGED files
    /\ UNCHANGED <<argv, mods, df, load_result, exit_code, report, raised,
                   cm, out>>

\* generate_profile_reports, lines 112-118: Sweetviz in its try/except.
ProfileSweetviz ==
    /\ pc = "profile_sweetviz"
    /\ pc' = "finish"
    /\ IF ~mods.sv
       THEN UNCHANGED <<profiled, files, log>>
       ELSE \/ /\ profiled' = [profiled EXCEPT !["sweetviz"] = "ok"]
               /\ Wrote("sweetviz_report.html")
               /\ Logged("INFO", "Generated Sweetviz report")
            \/ /\ profiled' = [profiled EXCEPT !["sweetviz"] = "failed"]
               /\ Logged("WARNING", "Failed to generate Sweetviz report")
               /\ UNCHANGED files
    /\ UNCHANGED <<argv, mods, df, load_result, exit_code, called, report,
                   raised, cm, out>>

\* main, line 181: the last log record; the process ends with status 0.
Finish ==
    /\ pc = "finish"
    /\ pc' = "done"
    /\ exit_code' = 0
    /\ Logged("INFO", "Insight Mapping EDA complete")
    /\ UNCHANGED <<argv, mods, df, load_result, files, called, report,
                   profiled, raised, cm, out>>

Next ==
    \/ Start
    \/ LoadData
    \/ BuildSummaries
    \/ RenderStatic
    \/ InteractiveScatter
    \/ PlotMissingValues
    \/ GenerateJsonReport
    \/ GenerateHtmlReport
    \/ ProfileYdata
    \/ ProfileSweetviz
    \/ Finish

Spec == InitRun /\ [][Next]_vars

-----------------------------------------------------------------------------
(* Properties of the run.                                                  *)

LoadFailed == load_result \in {"FileNotFoundError", "ValueError"}

\* C1: when load_data fails because the input file does not exist or its
\* extension is not recognized, the run has ended with a logged error and
\* exit status 1, build_report was never entered, and neither report.json
\* nor report.html has been written, in every state after the failure.
C1_LoadFailureStopsRun ==
    LoadFailed =>
        /\ pc = "exited"
        /\ exit_code = 1
        /\ log[Len(log)][1] = "ERROR"
        /\ ~Entered("build_report")
        /\ report = NoReport
        /\ files["report.json"] = 0
        /\ files["report.html"] = 0
        /\ load_result = (IF argv.exists THEN "ValueError"
                          ELSE "FileNotFoundError")

\* C1 also the other way round: a missing file or an unrecognized
\* extension never gets past load_data.
C1_NoLoadOfBadInput ==
    (~argv.exists \/ FileType(argv.suffix) = "unsupported")
        => pc \in {"start", "load", "exited"} /\ (pc = "exited" => LoadFailed)

C1_Theorem == C1_LoadFailureStopsRun /\ C1_NoLoadOfBadInput

\* C1 witness: an existing file with an unrecognized extension has stopped
\* the run, and the error record carries the extension in lower case.
C1_Witness ==
    /\ load_result = "ValueError"
    /\ argv.exists
    /\ argv.suffix = <<46, 67, 83, 201>>
    /\ log[Len(log)] = <<"ERROR", "Unsupported file format",
                         <<46, 99, 115, 233>>>>
    /\ pc = "exited"

ProfilerFailed == \E p \in DOMAIN profiled : profiled[p] = "failed"

Available(p) == IF p = "ydata" THEN mods.ProfileReport ELSE mods.sv

WarningOf(p) ==
    IF p = "ydata" THEN "Failed to generate ydata-profiling report"
    ELSE "Failed to generate Sweetviz report"

\* C2: with extended profiling requested, a failure of either profiler is
\* caught and logged as a warning; the run goes on to its normal completion
\* (it is never stopped, and it ends with status 0); report.json and
\* report.html stay as written; and the second profiler is attempted
\* whatever the first did.
C2_ProfilerFailureIsContained ==
    /\ ProfilerFailed =>
          /\ argv.profile
          /\ pc \in {"profile_sweetviz", "finish", "done"}
          /\ exit_code = (IF pc = "done" THEN 0 ELSE Running)
          /\ pc # "done" => ENABLED Next
          /\ files["report.json"] = 1
          /\ files["report.html"] = 1
          /\ report.built
    /\ \A p \in DOMAIN profiled :
          profiled[p] = "failed" => HasLog("WARNING", WarningOf(p))
    /\ (argv.profile /\ pc \in {"finish", "done"}) =>
          \A p \in DOMAIN profiled :
              (profiled[p] # "not_attempted") <=> Available(p)

\* C2 witness: the first profiler failed, the second was attempted, and the
\* run completed.
C2_Witness ==
    /\ pc = "done"
    /\ profiled["ydata"] = "failed"
    /\ profiled["sweetviz"] # "not_attempted"
    /\ exit_code = 0

\* C3 (the claim as stated): a failure of an optional visualization backend,
\* be it absent or raising while it renders, leaves the chart without an
\* artifact and never aborts the run: the run is not stopped by an uncaught
\* exception, and when it ends both reports are written and the chart's
\* entry in the report's visuals is empty.
C3_BackendFailureDegrades ==
    /\ raised # {} => pc # "crashed"
    /\ pc = "done" =>
          /\ files["report.json"] = 1 /\ files["report.html"] = 1
          /\ (~mods.px \/ "plotly" \in raised)
                => report.visuals["Interactive Scatter"] = << >>
          /\ (~mods.msno \/ "missingno" \in raised)
                => report.visuals["Missing Value Matrix"] = << >>

\* The place of each position of the run in the order of main and
\* build_report; a run that has ended is past every phase.
Position(p) ==
    CASE p = "start"            -> 0
      [] p = "load"             -> 1
      [] p = "build"            -> 2
      [] p = "charts"           -> 3
      [] p = "scatter"          -> 4
      [] p = "missing_matrix"   -> 5
      [] p = "json"             -> 6
      [] p = "html"             -> 7
      [] p = "profile_ydata"    -> 8
      [] p = "profile_sweetviz" -> 9
      [] p = "finish"           -> 10
      [] OTHER                  -> 11

ProfilingStarted ==
    \/ Entered("generate_profile_reports")
    \/ \E q \in DOMAIN profiled : profiled[q] # "not_attempted"
    \/ files["profiling_report.html"] > 0
    \/ files["sweetviz_report.html"] > 0

ChartsStarted ==
    \/ report # NoReport /\ \E k \in ChartKinds : report.visuals[k] # << >>
    \/ files["interactive_scatter.html"] > 0
    \/ files["missing_matrix.png"] > 0
    \/ raised # {}

\* What each phase has done is there only after the phase before it.
PhasesInOrder ==
    /\ report # NoReport => load_result = "ok" /\ df # NoTable
    /\ ChartsStarted => report # NoReport /\ Position(pc) > Position("charts")
    /\ files["report.json"] > 0 => report # NoReport /\ report.built
    /\ files["report.html"] > 0 => files["report.json"] = 1
    /\ ProfilingStarted
          => files["report.json"] = 1 /\ files["report.html"] = 1
    /\ \A f \in OutFiles : files[f] <= 1
    /\ \A i, j \in DOMAIN called : called[i] = called[j] => i = j
    /\ exit_code = 0 =>
          /\ report # NoReport /\ report.built
          /\ files["report.json"] = 1 /\ files["report.html"] = 1
          /\ called = <<"main", "load_data", "build_report",
                        "generate_json_report", "generate_html_report">>
                        \o (IF argv.profile
                            THEN <<"generate_profile_reports">> ELSE << >>)

\* C12: a run goes through its phases in one order: load, the summaries
\* and correlation matrices, the charts, report.json, report.html, then
\* the optional profiling; every step moves the run forward in that order
\* (no phase is entered again), and the work of a phase is there only when
\* the phase before it has finished.
C12_PhaseOrder ==
    /\ []PhasesInOrder
    /\ [][Position(pc') > Position(pc)]_vars

\* C12 witness: a run with profiling has ended with status 0 after the
\* charts, both reports and a profiling report.
C12_Witness ==
    /\ exit_code = 0
    /\ argv.profile
    /\ Len(called) = 6
    /\ report.built
    /\ report.visuals["Histograms"] # << >>
    /\ files["report.json"] = 1 /\ files["report.html"] = 1
    /\ profiled["ydata"] = "ok"

-----------------------------------------------------------------------------
(* Natural numbers beyond the range of a machine integer, for the 53-bit   *)
(* mantissas of float64: a sequence of limbs in base 2^15, least           *)
(* significant first, without leading zero limbs (zero is << >>).          *)

LimbBits == 15

Base == 2 ^ LimbBits

Limb(a, i) == IF i <= Len(a) THEN a[i] ELSE 0

RECURSIVE BNorm(_)
BNorm(a) ==
    IF a = << >> THEN a
    ELSE IF a[Len(a)] = 0 THEN BNorm(SubSeq(a, 1, Len(a) - 1))
    ELSE a

\* The limbs of a machine integer n >= 0.
RECURSIVE BFromInt(_)
BFromInt(n) == IF n = 0 THEN << >> ELSE <<n % Base>> \o BFromInt(n \div Base)

\* -1, 0 or 1 as the limbs of a and b from position i down compare.
RECURSIVE BCmpFrom(_, _, _)
BCmpFrom(a, b, i) ==
    IF i = 0 THEN 0
    ELSE IF a[i] < b[i] THEN -1
    ELSE IF a[i] > b[i] THEN 1
    ELSE BCmpFrom(a, b, i - 1)

BCmp(a, b) ==
    IF Len(a) < Len(b) THEN -1
    ELSE IF Len(a) > Len(b) THEN 1
    ELSE BCmpFrom(a, b, Len(a))

RECURSIVE BAddFrom(_, _, _, _)
BAddFrom(a, b, i, carry) ==
    IF i > Len(a) /\ i > Len(b)
    THEN (IF carry = 0 THEN << >> ELSE <<carry>>)
    ELSE LET x == Limb(a, i) + Limb(b, i) + carry
         IN  <<x % Base>> \o BAddFrom(a, b, i + 1, x \div Base)

BAdd(a, b) == BAddFrom(a, b, 1, 0)

\* a - b for a >= b.
RECURSIVE BSubFrom(_, _, _, _)
BSubFrom(a, b, i, borrow) ==
    IF i > Len(a) THEN << >>
    ELSE LET x == a[i] - Limb(b, i) - borrow
         IN  IF x < 0 THEN <<x + Base>> \o BSubFrom(a, b, i + 1, 1)
             ELSE <<x>> \o BSubFrom(a, b, i + 1, 0)

BSub(a, b) == BNorm(BSubFrom(a, b, 1, 0))

\* a * d for one limb d.
RECURSIVE BMulSmallFrom(_, _, _, _)
BMulSmallFrom(a, d, i, carry) ==
    IF i > Len(a) THEN (IF carry = 0 THEN << >> ELSE <<carry>>)
    ELSE LET x == a[i] * d + carry
         IN  <<x % Base>> \o BMulSmallFrom(a, d, i + 1, x \div Base)

BMulSmall(a, d) == IF d = 0 THEN << >> ELSE BMulSmallFrom(a, d, 1, 0)

\* a * Base^k
BShlLimbs(a, k) == IF a = << >> THEN a ELSE [i \in 1..k |-> 0] \o a

RECURSIVE BMulFrom(_, _, _)
BMulFrom(a, b, i) ==
    IF i > Len(b) THEN << >>
    ELSE BAdd(BShlLimbs(BMulSmall(a, b[i]), i - 1), BMulFrom(a, b, i + 1))

BMul(a, b) == BMulFrom(a, b, 1)

\* a * 2^n
BShl(a, n) == BShlLimbs(BMulSmall(a, 2 ^ (n % LimbBits)), n \div LimbBits)

\* floor(a / d) for one limb d > 0, from the top limb down.
RECURSIVE BDivSmallFrom(_, _, _, _)
BDivSmallFrom(a, d, i, rem) ==
    IF i = 0 THEN << >>
    ELSE LET x == rem * Base + a[i]
         IN  BDivSmallFrom(a, d, i - 1, x % d) \o <<x \div d>>

BDivSmall(a, d) == BNorm(BDivSmallFrom(a, d, Len(a), 0))

\* floor(a / 2^n)
BShr(a, n) ==
    IF n \div LimbBits >= Len(a) THEN << >>
    ELSE BDivSmall(SubSeq(a, n \div LimbBits + 1, Len(a)),
                   2 ^ (n % LimbBits))

RECURSIVE IntBitLen(_)
IntBitLen(n) == IF n = 0 THEN 0 ELSE 1 + IntBitLen(n \div 2)

BBitLen(a) ==
    IF a = << >> THEN 0
    ELSE LimbBits * (Len(a) - 1) + IntBitLen(a[Len(a)])

IsOdd(a) == a # << >> /\ a[1] % 2 = 1

\* The largest limb q with b * q <= r, counting down from the estimate.
RECURSIVE QuotDigit(_, _, _)
QuotDigit(r, b, q) ==
    IF BCmp(BMulSmall(b, q), r) <= 0 THEN q ELSE QuotDigit(r, b, q - 1)

Min(a, b) == IF a < b THEN a ELSE b

\* The quotient digit of r by b, from the estimate by the top limbs.
QuotOf(r, b) ==
    QuotDigit(r, b,
              Min(Base - 1,
                  (Limb(r, Len(b) + 1) * Base + Limb(r, Len(b))) \div b[Len(b)]))

\* Long division of a by b, the top limb of b at least Base/2: the limbs of
\* a are brought down from position i onto the remainder rem, the digits
\* found are put before quot; returns <<quotient, remainder>>.
RECURSIVE BDivFrom(_, _, _, _, _)
BDivDigit(a, b, i, r, q, quot) ==
    BDivFrom(a, b, i - 1, BSub(r, BMulSmall(b, q)), <<q>> \o quot)

BDivFrom(a, b, i, rem, quot) ==
    IF i = 0 THEN <<quot, rem>>
    ELSE BDivDigit(a, b, i, BNorm(<<a[i]>> \o rem),
                   QuotOf(BNorm(<<a[i]>> \o rem), b), quot)

QuotientAndRest(d) == <<BNorm(d[1]), d[2] # << >>>>

BDivNormal(a, b) == QuotientAndRest(BDivFrom(a, b, Len(a), << >>, << >>))

BDivShifted(a, b, sh) == BDivNormal(BShl(a, sh), BShl(b, sh))

\* <<floor(a / b), whether the division leaves a remainder>> for b > 0.
BDivMod(a, b) == BDivShifted(a, b, LimbBits - IntBitLen(b[Len(b)]))

\* floor(sqrt(a)) by Newton's iteration from x >= sqrt(a).
RECURSIVE BSqrtFrom(_, _)
BSqrtNext(a, x, y) == IF BCmp(y, x) >= 0 THEN x ELSE BSqrtFrom(a, y)

BSqrtFrom(a, x) == BSqrtNext(a, x, BShr(BAdd(x, BDivMod(a, x)[1]), 1))

BSqrt(a) ==
    IF a = << >> THEN a
    ELSE BSqrtFrom(a, BShl(<<1>>, (BBitLen(a) + 1) \div 2))

-----------------------------------------------------------------------------
(* IEEE 754 binary64 (numpy float64, Python float): a finite number is      *)
(* s * m * 2^e with s the sign, m a natural number below 2^53, odd unless   *)
(* the number is 0.  Every operation rounds its exact result to the nearest *)
(* such number, ties to the even mantissa.  Overflow and subnormal numbers  *)
(* are out of the range of the values computed here.                        *)

MantissaBits == 53

FNaN  == [k |-> "nan", s |-> 1, m |-> << >>, e |-> 0]

FInf(sgn) == [k |-> "inf", s |-> sgn, m |-> << >>, e |-> 0]

FZero == [k |-> "fin", s |-> 1, m |-> << >>, e |-> 0]

IsZero(x) == x.k = "fin" /\ x.m = << >>

\* The number of trailing zero bits of n > 0.
RECURSIVE IntTrailingZeros(_)
IntTrailingZeros(n) == IF n % 2 = 1 THEN 0 ELSE 1 + IntTrailingZeros(n \div 2)

\* s * m * 2^e with the trailing zero bits of m moved into the exponent.
FShift(sgn, m, e, tz) ==
    [k |-> "fin", s |-> sgn, m |-> BShr(m, tz), e |-> e + tz]

RECURSIVE FCanon(_, _, _)
FCanon(sgn, m, e) ==
    IF m = << >> THEN FZero
    ELSE IF m[1] = 0 THEN FCanon(sgn, Tail(m), e + LimbBits)
    ELSE FShift(sgn, m, e, IntTrailingZeros(m[1]))

\* The float64 nearest to s * (n + f) * 2^e, where 0 <= f < 1 and sticky
\* says whether f > 0; n has at least MantissaBits + 2 bits when sticky.
\* q rounded up when the part cut off is more than a half (c > 0), or is a
\* half (c = 0) and q is odd.
FRoundUp(sgn, q, e, sticky, c) ==
    FCanon(sgn,
           IF c > 0 \/ (c = 0 /\ (sticky \/ IsOdd(q))) THEN BAdd(q, <<1>>)
           ELSE q,
           e)

FRoundCut(sgn, n, e, sticky, sh, q) ==
    FRoundUp(sgn, q, e + sh, sticky,
             BCmp(BSub(n, BShl(q, sh)), BShl(<<1>>, sh - 1)))

FRoundBits(sgn, n, e, sticky, sh) ==
    IF sh <= 0 THEN FCanon(sgn, n, e)
    ELSE FRoundCut(sgn, n, e, sticky, sh, BShr(n, sh))

FRound(sgn, n, e, sticky) ==
    FRoundBits(sgn, n, e, sticky, BBitLen(n) - MantissaBits)

\* The float64 of a machine integer (exact).
FInt(n) == FCanon(IF n < 0 THEN -1 ELSE 1, BFromInt(IF n < 0 THEN -n ELSE n), 0)

FNeg(x) == IF x.k = "nan" \/ IsZero(x) THEN x ELSE [x EXCEPT !.s = -x.s]

\* The mantissa of x at exponent e <= x.e.
Aligned(x, e) == BShl(x.m, x.e - e)

\* -1, 0, 1 as |x| <, =, > |y| for finite x, y.
FCmpAbs(x, y) ==
    IF x.m = << >> \/ y.m = << >>
    THEN (IF x.m = y.m THEN 0 ELSE IF x.m = << >> THEN -1 ELSE 1)
    ELSE BCmp(Aligned(x, Min(x.e, y.e)), Aligned(y, Min(x.e, y.e)))

\* x < y for finite x, y.
FLt(x, y) ==
    IF IsZero(x) THEN ~IsZero(y) /\ y.s = 1
    ELSE IF IsZero(y) THEN x.s = -1
    ELSE IF x.s # y.s THEN x.s = -1
    ELSE IF x.s = 1 THEN FCmpAbs(x, y) < 0
    ELSE FCmpAbs(x, y) > 0

FLe(x, y) == x = y \/ FLt(x, y)

\* sa * a * 2^e + sb * b * 2^e, rounded.
FAddAligned(sa, a, sb, b, e) ==
    FRound(IF sa = sb \/ BCmp(a, b) >= 0 THEN sa ELSE sb,
           IF sa = sb THEN BAdd(a, b)
           ELSE IF BCmp(a, b) >= 0 THEN BSub(a, b)
           ELSE BSub(b, a),
           e, FALSE)

FAdd(x, y) ==
    IF x.k # "fin" \/ y.k # "fin" THEN FNaN
    ELSE IF IsZero(x) THEN y
    ELSE IF IsZero(y) THEN x
    ELSE FAddAligned(x.s, Aligned(x, Min(x.e, y.e)),
                     y.s, Aligned(y, Min(x.e, y.e)), Min(x.e, y.e))

FSub(x, y) == FAdd(x, FNeg(y))

FMul(x, y) ==
    IF x.k # "fin" \/ y.k # "fin" THEN FNaN
    ELSE FRound(x.s * y.s, BMul(x.m, y.m), x.e + y.e, FALSE)

FDivRound(sgn, d, e) == FRound(sgn, d[1], e, d[2])

\* x / y for x, y # 0, from the quotient of x.m * 2^sh by y.m.
FDivShifted(x, y, sh) ==
    FDivRound(x.s * y.s, BDivMod(BShl(x.m, sh), y.m), x.e - y.e - sh)

\* x / y; 0/0 is NaN and x/0 an infinity, as numpy computes them under
\* errstate(divide="ignore", invalid="ignore").
FDiv(x, y) ==
    IF x.k # "fin" \/ y.k # "fin" THEN FNaN
    ELSE IF IsZero(y) THEN (IF IsZero(x) THEN FNaN ELSE FInf(x.s * y.s))
    ELSE IF IsZero(x) THEN FZero
    ELSE FDivShifted(x, y, MantissaBits + 3 + BBitLen(y.m) - BBitLen(x.m))

FSqrtRound(n, r, e) == FRound(1, r, e, BMul(r, r) # n)

FSqrtOf(n, e) == FSqrtRound(n, BSqrt(n), e)

\* sqrt(x) for x > 0, from the root of x.m * 2^sh, x.e - sh even.
FSqrtShifted(x, sh) == FSqrtOf(BShl(x.m, sh), (x.e - sh) \div 2)

\* sqrt(x) for x >= 0.
FSqrt(x) ==
    IF x.k # "fin" THEN FNaN
    ELSE IF IsZero(x) THEN x
    ELSE IF x.s = -1 THEN FNaN
    ELSE FSqrtShifted(x, 2 * (MantissaBits + 2) - BBitLen(x.m)
                           + ((x.e - BBitLen(x.m)) % 2))

\* a[lo] + ... + a[hi] added one after the other onto res.
RECURSIVE SumOnto(_, _, _, _)
SumOnto(res, a, lo, hi) ==
    IF lo > hi THEN res ELSE SumOnto(FAdd(res, a[lo]), a, lo + 1, hi)

\* numpy's sum of n floats from position lo: one after the other below 8
\* of them, with eight running sums up to PairwiseBlock, by halves beyond.
PairwiseBlock == 128

Unroll == 8

RECURSIVE Lanes(_, _, _, _)
Lanes(r, a, i, last) ==
    IF i > last THEN r
    ELSE Lanes([j \in 1..Unroll |-> FAdd(r[j], a[i + j - 1])], a,
               i + Unroll, last)

RECURSIVE pairwise_sum(_, _, _)
pairwise_sum(a, lo, n) ==
    IF n < Unroll THEN SumOnto(FZero, a, lo, lo + n - 1)
    ELSE IF n <= PairwiseBlock
    THEN LET r == Lanes([j \in 1..Unroll |-> a[lo + j - 1]], a, lo + Unroll,
                        lo + n - (n % Unroll) - Unroll)
             res == FAdd(FAdd(FAdd(r[1], r[2]), FAdd(r[3], r[4])),
                         FAdd(FAdd(r[5], r[6]), FAdd(r[7], r[8])))
         IN  SumOnto(res, a, lo + n - (n % Unroll), lo + n - 1)
    ELSE LET half == n \div 2 - ((n \div 2) % Unroll)
         IN  FAdd(pairwise_sum(a, lo, half),
                  pairwise_sum(a, lo + half, n - half))

-----------------------------------------------------------------------------
(* Decimal rounding of a float64.  The rounded number is the float64       *)
(* nearest to h / 10^d for an integer h, and is kept as h: hundredths for  *)
(* round(x, 2), ten-thousandths for round(x, 4).                           *)

\* The machine integer of a natural number.
RECURSIVE BToInt(_)
BToInt(a) == IF a = << >> THEN 0 ELSE Head(a) + Base * BToInt(Tail(a))

\* q or q + 1 as the rest compares (cmp) with half the divisor; a tie goes
\* to the even one.
BRintUp(q, cmp) ==
    IF cmp > 0 \/ (cmp = 0 /\ IsOdd(q)) THEN BAdd(q, <<1>>) ELSE q

BRintOf(n, sh, q) ==
    BRintUp(q, BCmp(BSub(n, BShl(q, sh)), BShl(<<1>>, sh - 1)))

\* n / 2^sh rounded to the nearest natural number, sh > 0.
BRint(n, sh) == BRintOf(n, sh, BShr(n, sh))

\* The integer nearest to the exact product x * c of a finite float64 x and
\* a natural number c < 2^15, ties to the even one.
FRintScaled(x, c) ==
    IF x.e >= 0 THEN x.s * BToInt(BShl(BMulSmall(x.m, c), x.e))
    ELSE x.s * BToInt(BRint(BMulSmall(x.m, c), -x.e))

\* Python's round(x, d) of a float, scale = 10^d: the exact value of x
\* rounded to d decimals, ties to even (float.__round__ rounds correctly).
py_round(x, scale) == FRintScaled(x, scale)

\* numpy's round(x, d) (ndarray.round, Series.round, round() of a
\* numpy.float64), scale = 10^d: rint(x * scale) / scale, the product being
\* a float64.
np_round(x, scale) == FRintScaled(FMul(x, FInt(scale)), 1)

\* (k / n) * 100 in float64, n # 0.
percent_of(k, n) == FMul(FDiv(FInt(k), FInt(n)), FInt(100))

-----------------------------------------------------------------------------
(* cleaning_insights.py                                                    *)

\* Row i of the table, as the tuple of its cells.
Row(t, i) == [j \in 1..NCols(t) |-> t.cols[j].vals[i]]

\* Row i restricted to the columns listed in subset.
SubRow(t, subset, i) == [k \in DOMAIN subset |-> t.cols[subset[k]].vals[i]]

\* df.duplicated(subset=...), keep="first": row i is marked when an earlier
\* row holds the same cells (missing cells compare equal).  pandas returns
\* an empty Series for a frame that is empty on either axis.
duplicated(t, subset) ==
    IF t.nrows = 0 \/ NCols(t) = 0 THEN << >>
    ELSE [i \in 1..t.nrows |->
            \E j \in 1..(i - 1) : SubRow(t, subset, j) = SubRow(t, subset, i)]

\* Series.sum() of a boolean Series: the number of True entries.
RECURSIVE CountTrue(_)
CountTrue(b) ==
    IF b = << >> THEN 0
    ELSE (IF Head(b) THEN 1 ELSE 0) + CountTrue(Tail(b))

\* df.isna().sum(): the missing count of column j.
MissingCount(t, j) == CountTrue([i \in 1..t.nrows |-> IsNA(t.cols[j].vals[i])])

\* df.isna().sum().sum()
RECURSIVE TotalMissing(_, _)
TotalMissing(t, j) ==
    IF j > NCols(t) THEN 0 ELSE MissingCount(t, j) + TotalMissing(t, j + 1)

\* The per-column counts use the duplicates of the whole row.
duplicate_rows_summary_NoSubset(t) ==
    LET dup_count == CountTrue(duplicated(t, Columns(t)))
    IN  [duplicate_rows |-> dup_count,
         duplicate_percent |->
            IF t.nrows # 0 THEN py_round(percent_of(dup_count, t.nrows), 100)
            ELSE 0,
         total_rows |-> t.nrows,
         unique_rows |-> t.nrows - dup_count,
         duplicates_by_column |->
            [nm \in {t.cols[j].name : j \in ColIdx(t)} |-> dup_count]]

\* duplicate_rows_summary; duplicate_percent in hundredths.
duplicate_rows_summary(t) ==
    LET dup_count == CountTrue(duplicated(t, Columns(t)))
        ByName(nm) == CHOOSE j \in ColIdx(t) : t.cols[j].name = nm
    IN  [duplicate_rows |-> dup_count,
         duplicate_percent |->
            IF t.nrows # 0 THEN py_round(percent_of(dup_count, t.nrows), 100)
            ELSE 0,
         total_rows |-> t.nrows,
         unique_rows |-> t.nrows - dup_count,
         duplicates_by_column |->
            [nm \in {t.cols[j].name : j \in ColIdx(t)} |->
                CountTrue(duplicated(t, <<ByName(nm)>>))]]

\* round(x, 2) of a numpy.float64, in hundredths; NaN stays NaN (NA).
np_round2(x) == IF x.k # "fin" THEN NA ELSE Cell(np_round(x, 100))

\* (len(df) - df.duplicated().sum()) / len(df) * 100 if len(df) else 100
uniqueness(t) ==
    IF t.nrows = 0 THEN FInt(100)
    ELSE percent_of(t.nrows - CountTrue(duplicated(t, Columns(t))), t.nrows)

\* The three rounded scores of a completeness and a uniqueness.
quality_scores(c, u) ==
    [completeness_score |-> np_round2(c),
     uniqueness_score   |-> np_round2(u),
     overall_score      |-> np_round2(FDiv(FAdd(c, u), FInt(2)))]

\* The completeness is computed as the share of missing cells.
data_quality_score_MissingShare(t) ==
    quality_scores(IF t.nrows * NCols(t) = 0 THEN FNaN
                   ELSE percent_of(TotalMissing(t, 1), t.nrows * NCols(t)),
                   uniqueness(t))

\* ((total_missing / len(df)) * 100).round(2), in hundredths: the
\* division by len(df) = 0 gives NaN (NA here) for every column.
missing_percent(t, j) ==
    IF t.nrows = 0 THEN NA
    ELSE np_round2(percent_of(MissingCount(t, j), t.nrows))

\* sort_values(ascending=False) puts key x before key y: the larger number
\* first, NaN last (na_position="last"), equal keys in their first order.
SortsBefore(x, i, y, j) ==
    IF IsNA(x) \/ IsNA(y) THEN (IF IsNA(x) = IsNA(y) THEN i < j ELSE IsNA(y))
    ELSE Val(x) > Val(y) \/ (Val(x) = Val(y) /\ i < j)

SortsBeforeAscending(x, i, y, j) ==
    IF IsNA(x) \/ IsNA(y) THEN (IF IsNA(x) = IsNA(y) THEN i < j ELSE IsNA(y))
    ELSE Val(x) < Val(y) \/ (Val(x) = Val(y) /\ i < j)

\* The column at position p of the sorted summary: the one with p - 1
\* columns before it.
SortedColumn(t, p) ==
    CHOOSE j \in ColIdx(t) :
        Cardinality({i \in ColIdx(t) :
            SortsBefore(missing_percent(t, i), i, missing_percent(t, j), j)})
          = p - 1

SortedColumnAscending(t, p) ==
    CHOOSE j \in ColIdx(t) :
        Cardinality({i \in ColIdx(t) :
            SortsBeforeAscending(missing_percent(t, i), i,
                                 missing_percent(t, j), j)})
          = p - 1

\* One row of the summary: the index label and the three columns.
SummaryRow(t, j) ==
    [name            |-> t.cols[j].name,
     missing_count   |-> MissingCount(t, j),
     missing_percent |-> missing_percent(t, j),
     dtype           |-> t.cols[j].dtype]

\* The summary sorted by ascending missing_percent.
missing_value_summary_Ascending(t) ==
    [p \in 1..NCols(t) |-> SummaryRow(t, SortedColumnAscending(t, p))]

\* missing_value_summary: the rows of the returned frame, in order.
missing_value_summary(t) ==
    [p \in 1..NCols(t) |-> SummaryRow(t, SortedColumn(t, p))]

\* (1 - df.isna().sum().sum() / df.size) * 100; the division of 0 by
\* df.size = 0 gives NaN.
completeness(t) ==
    IF t.nrows * NCols(t) = 0 THEN FNaN
    ELSE FMul(FSub(FInt(1), FDiv(FInt(TotalMissing(t, 1)),
                                 FInt(t.nrows * NCols(t)))),
              FInt(100))

\* data_quality_score; every score in hundredths, NA for NaN.
data_quality_score(t) == quality_scores(completeness(t), uniqueness(t))

\* series.dropna(): the values of the non-missing cells, in row order.
RECURSIVE dropna(_)
dropna(vals) ==
    IF vals = << >> THEN << >>
    ELSE (IF IsNA(Head(vals)) THEN << >> ELSE <<Val(Head(vals))>>)
            \o dropna(Tail(vals))

\* Insertion of v into an ascending sequence.
RECURSIVE Insert(_, _)
Insert(v, s) ==
    IF s = << >> THEN <<v>>
    ELSE IF v <= Head(s) THEN <<v>> \o s
    ELSE <<Head(s)>> \o Insert(v, Tail(s))

\* The values in ascending order (the sort inside Series.quantile).
RECURSIVE Sorted(_)
Sorted(s) == IF s = << >> THEN << >> ELSE Insert(Head(s), Sorted(Tail(s)))

\* series.quantile(k/4) with linear interpolation, times 4; s is not empty.
\* The position k*(n-1)/4 lies between two order statistics.
Quantile4(s, k) ==
    LET x   == Sorted(s)
        pos == k * (Len(s) - 1)
        lo  == pos \div 4
        rem == pos % 4
    IN  IF rem = 0 THEN 4 * x[lo + 1]
        ELSE 4 * x[lo + 1] + (x[lo + 2] - x[lo + 1]) * rem

\* Q1 - 1.5 * IQR and Q3 + 1.5 * IQR, times 8.
IqrLower8(s) ==
    2 * Quantile4(s, 1) - 3 * (Quantile4(s, 3) - Quantile4(s, 1))

IqrUpper8(s) ==
    2 * Quantile4(s, 3) + 3 * (Quantile4(s, 3) - Quantile4(s, 1))

\* The values at or beyond a bound are flagged too.
OutliersInclusive(s, lower8, upper8) ==
    SelectSeq(s, LAMBDA v : 8 * v <= lower8 \/ 8 * v >= upper8)

\* series[(series < lower) | (series > upper)]
Outliers(s, lower8, upper8) ==
    SelectSeq(s, LAMBDA v : 8 * v < lower8 \/ 8 * v > upper8)

\* df.select_dtypes(include=[np.number]): integer and float columns
\* (a boolean column is not a numpy number).
is_number(dt) == dt \in {"int64", "float64"}

RECURSIVE SumSeq(_)
SumSeq(s) == IF s = << >> THEN 0 ELSE Head(s) + SumSeq(Tail(s))

\* Series.mean() of the non-missing values x (not empty): the float64 sum
\* (exact for the integers of a table) divided by the count.
series_mean(x) == FDiv(FInt(SumSeq(x)), FInt(Len(x)))

\* Series.std() needs ddof + 1 = 2 values.
MinCountStd == 2

\* (avg - values) ** 2
SquaredDeviations(x, avg) ==
    [i \in DOMAIN x |-> FMul(FSub(avg, FInt(x[i])), FSub(avg, FInt(x[i])))]

\* Series.std() (pandas nanops.nanvar, ddof = 1, then the square root):
\* NaN for fewer than 2 values.
std_ddof1(x) ==
    IF Len(x) < MinCountStd THEN FNaN
    ELSE FSqrt(FDiv(pairwise_sum(SquaredDeviations(x, series_mean(x)), 1,
                                 Len(x)),
                    FInt(Len(x) - 1)))

\* mean - 3 * std and mean + 3 * std
ZscoreWidth == 3

ZLower(mean, std) == FSub(mean, FMul(FInt(ZscoreWidth), std))

ZUpper(mean, std) == FAdd(mean, FMul(FInt(ZscoreWidth), std))

\* series[(series < lower) | (series > upper)] for float64 bounds.
OutliersFloat(s, lower, upper) ==
    SelectSeq(s, LAMBDA v : FLt(FInt(v), lower) \/ FLt(upper, FInt(v)))

\* The z-score outliers of s; with a NaN std both bounds are NaN and every
\* comparison with them is False.
ZscoreOutliers(s, mean, std) ==
    IF std.k # "fin" THEN << >>
    ELSE OutliersFloat(s, ZLower(mean, std), ZUpper(mean, std))

\* The local Series outliers of a column with non-missing values s.
column_outliers(s, method) ==
    IF method = "iqr" THEN Outliers(s, IqrLower8(s), IqrUpper8(s))
    ELSE ZscoreOutliers(s, series_mean(s), std_ddof1(s))

\* round(float(x), 4) in ten-thousandths; NaN stays NaN (NA).
py_round4(x) == IF x.k # "fin" THEN NA ELSE Cell(py_round(x, 10000))

\* One entry of results, from the outliers and the two rounded bounds.
ResultOf(s, outliers, lower, upper) ==
    [outlier_count   |-> Len(outliers),
     outlier_percent |-> py_round(percent_of(Len(outliers), Len(s)), 100),
     lower_bound     |-> lower,
     upper_bound     |-> upper]

ZscoreResult(s, mean, std) ==
    IF std.k # "fin" THEN ResultOf(s, << >>, NA, NA)
    ELSE ResultOf(s, ZscoreOutliers(s, mean, std),
                  py_round4(ZLower(mean, std)), py_round4(ZUpper(mean, std)))

\* The quartiles and the IQR bounds of integers are multiples of 1/8 that
\* float64 holds exactly: round(x, 4) is x, 1250 ten-thousandths for each
\* eighth.
column_result(s, method) ==
    IF method = "iqr"
    THEN ResultOf(s, Outliers(s, IqrLower8(s), IqrUpper8(s)),
                  Cell(IqrLower8(s) * 1250), Cell(IqrUpper8(s) * 1250))
    ELSE ZscoreResult(s, series_mean(s), std_ddof1(s))

\* The numeric columns with a non-missing value.
KeptColumns(t) ==
    {j \in ColIdx(t) : /\ is_number(t.cols[j].dtype)
                       /\ Len(dropna(t.cols[j].vals)) # 0}

ColumnNamed(t, nm) == CHOOSE j \in ColIdx(t) : t.cols[j].name = nm

\* outlier_detection(df, method): per numeric column with a non-missing
\* value, the count, the percentage (hundredths) and the two bounds
\* (ten-thousandths); any method other than "iqr" is the z-score method.
\* flagged is the local Series outliers of each column.
outlier_detection(t, method) ==
    [results |->
        [nm \in {t.cols[j].name : j \in KeptColumns(t)} |->
            column_result(dropna(t.cols[ColumnNamed(t, nm)].vals), method)],
     flagged |->
        [nm \in {t.cols[j].name : j \in KeptColumns(t)} |->
            column_outliers(dropna(t.cols[ColumnNamed(t, nm)].vals), method)],
     method |-> method]

-----------------------------------------------------------------------------
(* Specification SpecClean: the cleaning functions applied to a table.     *)

CleanDTypes == {"float64", "object"}

\* The sequence of the spec's example for outlier_detection.
ExampleTable ==
    [nrows |-> 6,
     cols |-> <<[name |-> "a", dtype |-> "int64",
                 vals |-> <<Cell(1), Cell(2), Cell(3), Cell(4), Cell(5),
                            Cell(100)>>]>>]

\* A number column with a missing cell beside a text column.
SparseTable ==
    MkTable(5, <<"float64", "object">>,
            <<<<Cell(0), Cell(0), NA, Cell(0), Cell(1)>>,
              <<Cell(0), Cell(1), Cell(0), NA, Cell(1)>>>>)

\* The tables of at most MaxCols columns and MaxCells cells, and the examples.
CleanTable(t) ==
    \/ \E r \in 0..MaxCells, c \in 0..MaxCols :
          /\ r * c <= MaxCells
          /\ \E dts \in [1..c -> CleanDTypes],
                vals \in [1..c -> [1..r -> Cells(MaxVal)]] :
                t = MkTable(r, dts, vals)
    \/ t = ExampleTable
    \/ t = SparseTable

\* The variables of the run of main, unused by the function specifications.
RunIdle ==
    /\ argv = [exists |-> TRUE, suffix |-> csv, profile |-> FALSE]
    /\ mods = [px |-> FALSE, msno |-> FALSE, ProfileReport |-> FALSE,
               sv |-> FALSE]
    /\ load_result = "ok"
    /\ log = << >>
    /\ exit_code = Running
    /\ files = [f \in OutFiles |-> 0]
    /\ called = << >>
    /\ report = NoReport
    /\ profiled = [p \in {"ydata", "sweetviz"} |-> "not_attempted"]
    /\ raised = {}

runVars == <<argv, mods, load_result, log, exit_code, files, called, report,
             profiled, raised>>

InitClean ==
    /\ pc = "input"
    /\ CleanTable(df)
    /\ cm = << >>
    /\ out = << >>
    /\ RunIdle

DataQualityScore ==
    /\ pc = "input"
    /\ pc' = "data_quality_score"
    /\ out' = data_quality_score(df)
    /\ UNCHANGED <<df, cm, runVars>>

DuplicateRowsSummary ==
    /\ pc = "input"
    /\ pc' = "duplicate_rows_summary"
    /\ out' = duplicate_rows_summary(df)
    /\ UNCHANGED <<df, cm, runVars>>

\* The default method and the other one.
Methods == {"iqr", "zscore"}

OutlierDetection ==
    /\ pc = "input"
    /\ pc' = "outlier_detection"
    /\ \E method \in Methods : out' = outlier_detection(df, method)
    /\ UNCHANGED <<df, cm, runVars>>

MissingValueSummary ==
    /\ pc = "input"
    /\ pc' = "missing_value_summary"
    /\ out' = missing_value_summary(df)
    /\ UNCHANGED <<df, cm, runVars>>

NextClean ==
    \/ MissingValueSummary
    \/ DataQualityScore
    \/ DuplicateRowsSummary
    \/ OutlierDetection

SpecClean == InitClean /\ [][NextClean]_vars

-----------------------------------------------------------------------------
(* Properties of the cleaning functions.                                   *)

Abs(x) == IF x < 0 THEN -x ELSE x

\* h is an integer nearest to n/d, stated by distance; when n/d lies half
\* way between two integers the float64 arithmetic of the code decides
\* which of them it is.
IsNearest(h, n, d) == 2 * Abs(n - h * d) <= d

MissingCells(t) ==
    {x \in (1..t.nrows) \X (1..NCols(t)) : IsNA(t.cols[x[2]].vals[x[1]])}

DistinctRows(t) == {Row(t, i) : i \in 1..t.nrows}

\* C8: on a table with at least one row and one column, completeness is
\* (1 - missing cells / cells) * 100, uniqueness is
\* (rows - duplicate rows) / rows * 100 and overall is their mean, each
\* rounded to 2 decimals (compared in hundredths); with no missing value and
\* no duplicate row all three are 100.0.
C8_QualityScore ==
    (pc = "data_quality_score" /\ df.nrows >= 1 /\ NCols(df) >= 1) =>
        LET cells == df.nrows * NCols(df)
            miss  == Cardinality(MissingCells(df))
            rows  == df.nrows
            dups  == rows - Cardinality(DistinctRows(df))
            c     == out.completeness_score
            u     == out.uniqueness_score
            o     == out.overall_score
        IN  /\ ~IsNA(c) /\ ~IsNA(u) /\ ~IsNA(o)
            \* (1 - miss/cells) * 100 = 100 * (cells - miss) / cells
            /\ IsNearest(Val(c), 100 * 100 * (cells - miss), cells)
            /\ IsNearest(Val(u), 100 * 100 * (rows - dups), rows)
            /\ IsNearest(Val(o),
                         100 * (100 * (cells - miss) * rows
                                  + 100 * (rows - dups) * cells),
                         2 * cells * rows)
            /\ (miss = 0 /\ dups = 0) =>
                  c = Cell(10000) /\ u = Cell(10000) /\ o = Cell(10000)

\* C8 witness: a table with a missing cell and a duplicate row was scored.
C8_Witness ==
    /\ pc = "data_quality_score"
    /\ df.nrows >= 2 /\ NCols(df) = 2
    /\ MissingCells(df) # {}
    /\ Cardinality(DistinctRows(df)) < df.nrows
    /\ Val(out.overall_score) < 10000

\* C9: on a table with zero rows duplicate_percent is 0; on every table
\* unique_rows + duplicate_rows = total_rows (the row count), and
\* duplicates_by_column holds for each column the number of its cells that
\* repeat an earlier cell of the same column.
C9_DuplicateSummary ==
    pc = "duplicate_rows_summary" =>
        /\ df.nrows = 0 => out.duplicate_percent = 0
        /\ out.total_rows = df.nrows
        /\ out.unique_rows + out.duplicate_rows = out.total_rows
        /\ out.duplicate_rows >= 0 /\ out.unique_rows >= 0
        /\ DOMAIN out.duplicates_by_column
              = {df.cols[j].name : j \in ColIdx(df)}
        /\ \A j \in ColIdx(df) :
              out.duplicates_by_column[df.cols[j].name]
                = df.nrows
                    - Cardinality({df.cols[j].vals[i] : i \in 1..df.nrows})

\* C9 witness: no row repeats, yet a column holds a repeated value.
C9_Witness ==
    /\ pc = "duplicate_rows_summary"
    /\ NCols(df) = 2
    /\ out.duplicate_rows = 0
    /\ \E nm \in DOMAIN out.duplicates_by_column :
          out.duplicates_by_column[nm] > 0

\* The rows of column j that hold a value.
Present(t, j) == {i \in 1..t.nrows : ~IsNA(t.cols[j].vals[i])}

\* The k-th smallest value of column j (k = 1 is the minimum), by counting.
OrderStat(t, j, k) ==
    LET v(i) == Val(t.cols[j].vals[i])
    IN  CHOOSE x \in {v(i) : i \in Present(t, j)} :
            /\ Cardinality({i \in Present(t, j) : v(i) < x}) < k
            /\ k <= Cardinality({i \in Present(t, j) : v(i) <= x})

\* Four times the quantile q/4 of column j: the linear interpolation between
\* the two order statistics around position q*(n-1)/4.
Quartile4(t, j, q) ==
    LET pos == q * (Cardinality(Present(t, j)) - 1)
        w   == pos % 4
        a   == OrderStat(t, j, pos \div 4 + 1)
    IN  IF w = 0 THEN 4 * a
        ELSE (4 - w) * a + w * OrderStat(t, j, pos \div 4 + 2)

\* C10: the IQR method reports a result for exactly the numeric columns
\* with a non-missing value; there it flags exactly the non-missing values
\* strictly below Q1 - 1.5*IQR or strictly above Q3 + 1.5*IQR, reports
\* their count and the two bounds; on [1,2,3,4,5,100] it flags 100 alone.
C10_IqrOutliers ==
    (pc = "outlier_detection" /\ out.method = "iqr") =>
        /\ DOMAIN out.results
              = {df.cols[j].name :
                    j \in {k \in ColIdx(df) :
                             /\ df.cols[k].dtype \in {"int64", "float64"}
                             /\ Present(df, k) # {}}}
        /\ DOMAIN out.flagged = DOMAIN out.results
        /\ \A j \in ColIdx(df) :
             df.cols[j].name \in DOMAIN out.results =>
                LET res  == out.results[df.cols[j].name]
                    fl   == out.flagged[df.cols[j].name]
                    q1   == Quartile4(df, j, 1)
                    q3   == Quartile4(df, j, 3)
                    lo8  == 2 * q1 - 3 * (q3 - q1)
                    hi8  == 2 * q3 + 3 * (q3 - q1)
                    outl == {i \in Present(df, j) :
                               \/ 8 * Val(df.cols[j].vals[i]) < lo8
                               \/ 8 * Val(df.cols[j].vals[i]) > hi8}
                IN  /\ res.outlier_count = Cardinality(outl)
                    /\ Len(fl) = Cardinality(outl)
                    /\ {fl[i] : i \in DOMAIN fl}
                          = {Val(df.cols[j].vals[i]) : i \in outl}
                    /\ ~IsNA(res.lower_bound) /\ ~IsNA(res.upper_bound)
                    /\ 8 * Val(res.lower_bound) = 10000 * lo8
                    /\ 8 * Val(res.upper_bound) = 10000 * hi8
                    /\ \A i \in DOMAIN fl :
                          /\ 10000 * fl[i] # Val(res.lower_bound)
                          /\ 10000 * fl[i] # Val(res.upper_bound)
        /\ df = ExampleTable =>
              /\ out.flagged["a"] = <<100>>
              /\ out.results["a"].outlier_count = 1
              /\ out.results["a"].lower_bound = Cell(-15000)
              /\ out.results["a"].upper_bound = Cell(85000)

\* C10 witness: a column with a missing cell has a flagged value, next to a
\* column that is left out of the result.
C10_Witness ==
    /\ pc = "outlier_detection"
    /\ out.method = "iqr"
    /\ df # ExampleTable
    /\ DOMAIN out.results # {df.cols[j].name : j \in ColIdx(df)}
    /\ \E nm \in DOMAIN out.results :
          /\ out.results[nm].outlier_count = 1
          /\ \E j \in ColIdx(df) :
                df.cols[j].name = nm /\ Present(df, j) # 1..df.nrows

\* C10 witness for the bound itself: a value equal to a bound is not flagged.
C10_WitnessAtBound ==
    /\ pc = "outlier_detection"
    /\ out.method = "iqr"
    /\ \E j \in ColIdx(df) :
          /\ df.cols[j].name \in DOMAIN out.results
          /\ \E i \in Present(df, j) :
                Cell(10000 * Val(df.cols[j].vals[i]))
                    = out.results[df.cols[j].name].upper_bound
          /\ out.results[df.cols[j].name].outlier_count = 0

\* Column j has every cell missing / no cell missing, in a table with rows.
FullyMissing(t, j) == t.nrows >= 1 /\ Present(t, j) = {}

FullyPresent(t, j) == t.nrows >= 1 /\ Present(t, j) = 1..t.nrows

\* The position of the column named nm in the summary s.
PositionOf(s, nm) == CHOOSE p \in DOMAIN s : s[p].name = nm

\* C11: missing_value_summary returns one row per column of the table, with
\* the column's count of missing cells and, for a table with rows, that
\* count as a percentage of the rows rounded to 2 decimals (in hundredths);
\* no row holds a larger percentage than a row before it (the percentages
\* of a table without rows are NaN and none is larger than another); a
\* fully-missing column reports 100.0, a fully-present one 0.0, and the
\* first precedes the second.
C11_MissingSummarySorted ==
    pc = "missing_value_summary" =>
        /\ Len(out) = NCols(df)
        /\ \A j \in ColIdx(df) :
              \E p \in DOMAIN out :
                 /\ out[p].name = df.cols[j].name
                 /\ \A q \in DOMAIN out : out[q].name = out[p].name => q = p
                 /\ out[p].missing_count = df.nrows - Cardinality(Present(df, j))
                 /\ df.nrows >= 1 =>
                       /\ ~IsNA(out[p].missing_percent)
                       /\ IsNearest(Val(out[p].missing_percent),
                                    100 * 100 * out[p].missing_count, df.nrows)
                 /\ FullyMissing(df, j) => out[p].missing_percent = Cell(10000)
                 /\ FullyPresent(df, j) => out[p].missing_percent = Cell(0)
        /\ \A p, q \in DOMAIN out :
              (p < q /\ ~IsNA(out[p].missing_percent)
                     /\ ~IsNA(out[q].missing_percent))
                 => Val(out[p].missing_percent) >= Val(out[q].missing_percent)
        /\ \A i, j \in ColIdx(df) :
              (FullyMissing(df, i) /\ FullyPresent(df, j))
                 => PositionOf(out, df.cols[i].name)
                       < PositionOf(out, df.cols[j].name)

\* C11 witness: the summary of a table whose first column is fully present
\* and whose second column is fully missing lists the second column first.
C11_Witness ==
    /\ pc = "missing_value_summary"
    /\ NCols(df) = 2 /\ df.nrows = 2
    /\ FullyPresent(df, 1) /\ FullyMissing(df, 2)
    /\ out[1].name = df.cols[2].name /\ out[1].missing_percent = Cell(10000)
    /\ out[2].name = df.cols[1].name /\ out[2].missing_percent = Cell(0)

\* C13: on a table without rows or without columns every percentage of
\* missing_value_summary and every score of data_quality_score is a number
\* (never NaN), and the uniqueness score is 100 when the row count is 0.
C13_EmptyTableDefined ==
    (df.nrows = 0 \/ NCols(df) = 0) =>
        /\ pc = "missing_value_summary" =>
              \A p \in DOMAIN out : ~IsNA(out[p].missing_percent)
        /\ pc = "data_quality_score" =>
              /\ ~IsNA(out.completeness_score)
              /\ ~IsNA(out.uniqueness_score)
              /\ ~IsNA(out.overall_score)
              /\ df.nrows = 0 => out.uniqueness_score = Cell(10000)

-----------------------------------------------------------------------------
(* correlation_analysis.py: the chi-squared statistic and Cramer's V of a  *)
(* contingency table [shape |-> <<r, k>>, counts |-> r rows of k counts],  *)
(* computed in float64 as numpy computes them.                             *)

ZeroTable(r, k) ==
    [shape |-> <<r, k>>, counts |-> [i \in 1..r |-> [j \in 1..k |-> 0]]]

RECURSIVE SumInts(_, _)
SumInts(f, n) == IF n = 0 THEN 0 ELSE f[n] + SumInts(f, n - 1)

\* observed.sum(axis=1), observed.sum(axis=0), observed.sum()
row_sum(t, i) == SumInts(t.counts[i], t.shape[2])

col_sum(t, j) == SumInts([i \in 1..t.shape[1] |-> t.counts[i][j]], t.shape[1])

total(t) == SumInts([i \in 1..t.shape[1] |-> row_sum(t, i)], t.shape[1])

\* row_sum @ col_sum / total if total else 0
expected(t, i, j) ==
    IF total(t) # 0
    THEN FDiv(FInt(row_sum(t, i) * col_sum(t, j)), FInt(total(t)))
    ELSE FZero

\* The largest finite float64, (2^53 - 1) * 2^971.
FMax(sgn) ==
    [k |-> "fin", s |-> sgn,
     m |-> BSub(BShl(<<1>>, MantissaBits), <<1>>), e |-> 971]

\* np.nan_to_num: NaN becomes 0, an infinity the largest finite number.
nan_to_num_Keep(x) == x

nan_to_num(x) ==
    IF x.k = "nan" THEN FZero
    ELSE IF x.k = "inf" THEN FMax(x.s)
    ELSE x

\* One cell of nan_to_num((observed - expected) ** 2 / expected).
chi2_term(t, i, j) ==
    LET d == FSub(FInt(t.counts[i][j]), expected(t, i, j))
    IN  nan_to_num(FDiv(FMul(d, d), expected(t, i, j)))

\* The cells of the r x k array in memory order (row by row).
chi2_terms(t) ==
    [p \in 1..(t.shape[1] * t.shape[2]) |->
        chi2_term(t, ((p - 1) \div t.shape[2]) + 1, ((p - 1) % t.shape[2]) + 1)]

ss_chi2(t) ==
    IF t.shape[1] * t.shape[2] = 0 THEN FZero
    ELSE pairwise_sum(chi2_terms(t), 1, t.shape[1] * t.shape[2])

\* Python's max(0, x) and min(a, b): the first argument unless the second
\* is strictly larger (smaller).
max0(x) == IF x.k = "fin" /\ FLt(FZero, x) THEN x ELSE FZero

min2(a, b) == IF FLt(b, a) THEN b ELSE a

\* The bias correction r - (r - 1)**2 / (n - 1) if n > 1 else 0.
corr_dim(r, n) ==
    IF n > 1 THEN FSub(FInt(r), FDiv(FInt((r - 1) * (r - 1)), FInt(n - 1)))
    ELSE FZero

cramers_v(t) ==
    LET chi2 == ss_chi2(t)
        n    == total(t)
        phi2 == FDiv(chi2, FInt(n))
        r    == t.shape[1]
        k    == t.shape[2]
        phi2corr ==
            IF n > 1
            THEN max0(FSub(phi2, FDiv(FInt((k - 1) * (r - 1)), FInt(n - 1))))
            ELSE FZero
        denom == min2(FSub(corr_dim(k, n), FInt(1)),
                      FSub(corr_dim(r, n), FInt(1)))
    IN  IF n = 0 THEN FZero
        ELSE IF FLe(denom, FZero) THEN FZero
        ELSE FSqrt(FDiv(phi2corr, denom))

-----------------------------------------------------------------------------
(* Specification SpecChi: a contingency table is tallied one observation   *)
(* at a time, then ss_chi2 or cramers_v is applied to it.                  *)

\* Tables of at most MaxDim rows and columns and at most MaxN observations.
MaxDim == 2

MaxN == 4

InitChi ==
    /\ pc = "crosstab"
    /\ \E r \in 0..MaxDim, k \in 0..MaxDim : cm = ZeroTable(r, k)
    /\ df = NoTable
    /\ out = << >>
    /\ RunIdle

\* pd.crosstab counts one more joint observation of categories (i, j).
Observe(i, j) ==
    /\ pc = "crosstab"
    /\ total(cm) < MaxN
    /\ cm' = [cm EXCEPT !.counts[i][j] = @ + 1]
    /\ UNCHANGED <<pc, df, out>>
    /\ UNCHANGED runVars

SsChi2 ==
    /\ pc = "crosstab"
    /\ pc' = "ss_chi2"
    /\ out' = ss_chi2(cm)
    /\ UNCHANGED <<df, cm>>
    /\ UNCHANGED runVars

CramersV ==
    /\ pc = "crosstab"
    /\ pc' = "cramers_v"
    /\ out' = cramers_v(cm)
    /\ UNCHANGED <<df, cm>>
    /\ UNCHANGED runVars

NextChi ==
    \/ \E i \in 1..cm.shape[1], j \in 1..cm.shape[2] : Observe(i, j)
    \/ SsChi2
    \/ CramersV

SpecChi == InitChi /\ [][NextChi]_vars

-----------------------------------------------------------------------------
(* Properties of the chi-squared statistic and Cramer's V.                 *)

\* Every row and every column of the table holds an observation.
NoEmptyLine(t) ==
    /\ \A i \in 1..t.shape[1] : row_sum(t, i) > 0
    /\ \A j \in 1..t.shape[2] : col_sum(t, j) > 0

\* Each count is its expected count: count * total = row total * column total.
Independent(t) ==
    /\ total(t) > 0
    /\ \A i \in 1..t.shape[1], j \in 1..t.shape[2] :
          t.counts[i][j] * total(t) = row_sum(t, i) * col_sum(t, j)

\* C5: for a contingency table with at least one observation and no empty
\* row or column, cramers_v returns a number V with 0 <= V <= 1.
C5_CramersVInUnitInterval ==
    (pc = "cramers_v" /\ total(cm) >= 1 /\ NoEmptyLine(cm))
        => /\ out.k = "fin"
           /\ FLe(FZero, out)
           /\ FLe(out, FInt(1))

\* C6: on a table whose counts equal their expected counts, ss_chi2 and
\* cramers_v return exactly 0; on a table whose grand total is 0 (a table
\* without cells included) both return 0, a number and not a failed division.
C6_IndependenceGivesZero ==
    (pc \in {"ss_chi2", "cramers_v"} /\ (Independent(cm) \/ total(cm) = 0))
        => out = FZero

\* cramers_v has returned 0 through sqrt(phi2corr / denom) on a 2 x 2 table
\* of independent counts, all of them positive.
C6_Witness ==
    /\ pc = "cramers_v"
    /\ cm.shape = <<2, 2>>
    /\ Independent(cm)
    /\ \A i \in 1..2, j \in 1..2 : cm.counts[i][j] > 0
    /\ out = FZero

-----------------------------------------------------------------------------
(* correlation_analysis.py: the two correlation matrices of a table.  A    *)
(* matrix is [index, columns, values]: the row labels, the column labels   *)
(* and the rows of float64 entries.                                        *)

\* pd.DataFrame()
EmptyFrame == [index |-> << >>, columns |-> << >>, values |-> << >>]

Labels(t, cols) == [a \in 1..Len(cols) |-> t.cols[cols[a]].name]

\* The accumulators of pandas' nancorr (Welford's method) before a row.
NoObs ==
    [nobs |-> 0, meanx |-> FZero, meany |-> FZero, ssqdm_x |-> FZero,
     ssqdm_y |-> FZero, covxy |-> FZero]

\* The accumulators after one more row with values vx, vy.
Welford(a, vx, vy) ==
    LET nobs  == a.nobs + 1
        dx    == FSub(vx, a.meanx)
        dy    == FSub(vy, a.meany)
        meanx == FAdd(a.meanx, FMul(FDiv(FInt(1), FInt(nobs)), dx))
        meany == FAdd(a.meany, FMul(FDiv(FInt(1), FInt(nobs)), dy))
    IN  [nobs    |-> nobs,
         meanx   |-> meanx,
         meany   |-> meany,
         ssqdm_x |-> FAdd(a.ssqdm_x, FMul(FSub(vx, meanx), dx)),
         ssqdm_y |-> FAdd(a.ssqdm_y, FMul(FSub(vy, meany), dy)),
         covxy   |-> FAdd(a.covxy, FMul(FSub(vx, meanx), dy))]

\* The rows from i on, those with both cells present (mask) accumulated.
RECURSIVE nancorr_rows(_, _, _, _, _)
nancorr_rows(t, x, y, i, a) ==
    IF i > t.nrows THEN a
    ELSE IF IsNA(t.cols[x].vals[i]) \/ IsNA(t.cols[y].vals[i])
    THEN nancorr_rows(t, x, y, i + 1, a)
    ELSE nancorr_rows(t, x, y, i + 1,
                      Welford(a, FInt(Val(t.cols[x].vals[i])),
                                 FInt(Val(t.cols[y].vals[i]))))

\* A coefficient beyond 1 in magnitude is clipped to 1.
clip(v) ==
    IF FLt(FInt(1), v) THEN FInt(1)
    ELSE IF FLt(v, FInt(-1)) THEN FInt(-1)
    ELSE v

\* Pearson's r of columns x and y: NaN without an observation (min_periods
\* is 1) and when the divisor sqrt(ssqdm_x * ssqdm_y) is 0.
nancorr(t, x, y) ==
    LET a       == nancorr_rows(t, x, y, 1, NoObs)
        divisor == FSqrt(FMul(a.ssqdm_x, a.ssqdm_y))
    IN  IF a.nobs < 1 THEN FNaN
        ELSE IF ~IsZero(divisor) THEN clip(FDiv(a.covxy, divisor))
        ELSE FNaN

\* DataFrame.corr(): the entry of a pair is computed once, with the later
\* column as x, and stored at both positions.
corr(t, cols) ==
    [index   |-> Labels(t, cols),
     columns |-> Labels(t, cols),
     values  |-> [a \in 1..Len(cols) |-> [b \in 1..Len(cols) |->
                    IF a >= b THEN nancorr(t, cols[a], cols[b])
                    ELSE nancorr(t, cols[b], cols[a])]]]

numeric_correlation(t) ==
    IF get_numeric_columns(t) = << >> THEN EmptyFrame
    ELSE corr(t, get_numeric_columns(t))

RECURSIVE SortedSeqOf(_)
SortedSeqOf(S) ==
    IF S = {} THEN << >>
    ELSE LET least == CHOOSE v \in S : \A w \in S : v <= w
         IN  <<least>> \o SortedSeqOf(S \ {least})

\* pd.crosstab(df[x], df[y]): the rows with both cells present, counted by
\* the pair of values; the categories are the values met, in sorted order.
crosstab(t, x, y) ==
    LET rows == {i \in 1..t.nrows :
                    ~IsNA(t.cols[x].vals[i]) /\ ~IsNA(t.cols[y].vals[i])}
        xs   == SortedSeqOf({Val(t.cols[x].vals[i]) : i \in rows})
        ys   == SortedSeqOf({Val(t.cols[y].vals[i]) : i \in rows})
    IN  [shape  |-> <<Len(xs), Len(ys)>>,
         counts |-> [a \in 1..Len(xs) |-> [b \in 1..Len(ys) |->
                       Cardinality({i \in rows :
                           /\ Val(t.cols[x].vals[i]) = xs[a]
                           /\ Val(t.cols[y].vals[i]) = ys[b]})]]]

categorical_correlation(t) ==
    LET cat_cols == get_categorical_columns(t)
    IN  IF Len(cat_cols) < 2 THEN EmptyFrame
        ELSE [index   |-> Labels(t, cat_cols),
              columns |-> Labels(t, cat_cols),
              values  |-> [a \in 1..Len(cat_cols) |->
                            [b \in 1..Len(cat_cols) |->
                               IF cat_cols[a] = cat_cols[b] THEN FInt(1)
                               ELSE cramers_v(crosstab(t, cat_cols[a],
                                                       cat_cols[b]))]]]

-----------------------------------------------------------------------------
(* Specification SpecCorr: the classifier and the two correlation matrices *)
(* applied to a table with columns of every dtype.                         *)

CorrTable(t) ==
    \E r \in 0..MaxCells, c \in 0..MaxCols :
        /\ r * c <= MaxCells
        /\ \E dts \in [1..c -> DTypes],
              vals \in [1..c -> [1..r -> Cells(MaxVal)]] :
              /\ t = MkTable(r, dts, vals)
              /\ WellTyped(t)

InitCorr ==
    /\ pc = "input"
    /\ CorrTable(df)
    /\ cm = << >>
    /\ out = << >>
    /\ RunIdle

\* The two column lists every analysis starts from.
ClassifyColumns ==
    /\ pc = "input"
    /\ pc' = "get_columns"
    /\ out' = [numeric     |-> get_numeric_columns(df),
               categorical |-> get_categorical_columns(df)]
    /\ UNCHANGED <<df, cm>>
    /\ UNCHANGED runVars

NumericCorrelation ==
    /\ pc = "input"
    /\ pc' = "numeric_correlation"
    /\ out' = numeric_correlation(df)
    /\ UNCHANGED <<df, cm>>
    /\ UNCHANGED runVars

CategoricalCorrelation ==
    /\ pc = "input"
    /\ pc' = "categorical_correlation"
    /\ out' = categorical_correlation(df)
    /\ UNCHANGED <<df, cm>>
    /\ UNCHANGED runVars

NextCorr ==
    \/ ClassifyColumns
    \/ NumericCorrelation
    \/ CategoricalCorrelation

SpecCorr == InitCorr /\ [][NextCorr]_vars

-----------------------------------------------------------------------------
(* Properties of the classifier and of the correlation matrices.           *)

InSeq(x, s) == \E a \in DOMAIN s : s[a] = x

\* C7: no column is in both get_numeric_columns and get_categorical_columns,
\* whatever its dtype (integer, float, boolean, text, other).
C7_NumericAndCategoricalDisjoint ==
    pc = "get_columns"
        => \A j \in ColIdx(df) :
              ~(InSeq(j, out.numeric) /\ InSeq(j, out.categorical))

\* C4: each correlation matrix is square with the same labels on rows and
\* columns, symmetric, and has 1.0 at every diagonal entry.
C4_SquareSymmetricUnitDiagonal ==
    pc \in {"numeric_correlation", "categorical_correlation"}
        => /\ out.index = out.columns
           /\ Len(out.values) = Len(out.index)
           /\ \A a \in DOMAIN out.values :
                 /\ Len(out.values[a]) = Len(out.columns)
                 /\ out.values[a][a] = FInt(1)
                 /\ \A b \in DOMAIN out.values :
                       out.values[a][b] = out.values[b][a]

-----------------------------------------------------------------------------
(* descriptive_stats.py: describe_dataframe.  A statistic is None, NaN, a  *)
(* float64 (FInt, FDiv), or Number: a defined float64 whose value is not   *)
(* modelled (std, skewness and kurtosis).                                  *)

None == [k |-> "none"]

Number == [k |-> "number"]

Value(v) == [k |-> "value", v |-> v]

\* Series.median(), min(), max() of the non-missing values in ascending
\* order xs (not empty).
series_median(xs) ==
    IF Len(xs) % 2 = 1 THEN FInt(xs[(Len(xs) + 1) \div 2])
    ELSE FDiv(FInt(xs[Len(xs) \div 2] + xs[Len(xs) \div 2 + 1]), FInt(2))

series_min(xs) == FInt(xs[1])

series_max(xs) == FInt(xs[Len(xs)])

\* Series.std() (ddof = 1) is NaN for fewer than 2 values, Series.skew() for
\* fewer than 3, Series.kurtosis() for fewer than 4.
MinCountSkew == 3

MinCountKurt == 4

series_std(x) == IF Len(x) < MinCountStd THEN FNaN ELSE Number

series_skew(x) == IF Len(x) < MinCountSkew THEN FNaN ELSE Number

series_kurtosis(x) == IF Len(x) < MinCountKurt THEN FNaN ELSE Number

Occurrences(x, v) == Cardinality({i \in DOMAIN x : x[i] = v})

\* Series.value_counts().iloc[0]: the largest number of occurrences.
TopCount(x) ==
    CHOOSE n \in 1..Len(x) :
        /\ \E i \in DOMAIN x : Occurrences(x, x[i]) = n
        /\ \A i \in DOMAIN x : Occurrences(x, x[i]) <= n

\* Series.mode().iloc[0]: the least of the most frequent values.
TopValue(x) ==
    CHOOSE v \in {x[i] : i \in DOMAIN x} :
        /\ Occurrences(x, v) = TopCount(x)
        /\ \A i \in DOMAIN x : Occurrences(x, x[i]) = TopCount(x) => v <= x[i]

\* round(series.isna().mean() * 100, 2) in hundredths; the mean of an empty
\* Series is NaN.
missing_mean_percent(col) ==
    IF Len(col.vals) = 0 THEN NA
    ELSE np_round2(percent_of(Len(col.vals) - Len(dropna(col.vals)),
                              Len(col.vals)))

\* The statistics of a numeric column with non-missing values x; each is
\* None when series.isna().all().
numeric_stats(x) ==
    IF x = << >>
    THEN [mean |-> None, median |-> None, std |-> None, min |-> None,
          max |-> None, skewness |-> None, kurtosis |-> None,
          zeros |-> 0, negatives |-> 0]
    ELSE [mean      |-> series_mean(x),
          median    |-> series_median(Sorted(x)),
          std       |-> series_std(x),
          min       |-> series_min(Sorted(x)),
          max       |-> series_max(Sorted(x)),
          skewness  |-> series_skew(x),
          kurtosis  |-> series_kurtosis(x),
          zeros     |-> Len(SelectSeq(x, LAMBDA v : v = 0)),
          negatives |-> Len(SelectSeq(x, LAMBDA v : v < 0))]

\* The statistics of any other column.
other_stats(x) ==
    [most_common       |-> IF x = << >> THEN None ELSE Value(TopValue(x)),
     most_common_count |-> IF x = << >> THEN 0 ELSE TopCount(x)]

col_stats(col) ==
    [dtype           |-> col.dtype,
     unique          |-> nunique(col),
     missing         |-> Len(col.vals) - Len(dropna(col.vals)),
     missing_percent |-> missing_mean_percent(col),
     stats           |-> IF is_numeric(col.dtype)
                         THEN numeric_stats(dropna(col.vals))
                         ELSE other_stats(dropna(col.vals))]

\* describe_dataframe: df.describe(include="all") raises ValueError for a
\* frame without columns; otherwise the per-column statistics and the shape.
describe_dataframe(t) ==
    IF describe_raises(t)
    THEN [raised |-> "ValueError", columns |-> << >>,
          shape |-> [rows |-> t.nrows, columns |-> 0]]
    ELSE [raised  |-> "none",
          columns |-> [j \in ColIdx(t) |-> col_stats(t.cols[j])],
          shape   |-> [rows |-> t.nrows, columns |-> NCols(t)]]

-----------------------------------------------------------------------------
(* Specification SpecDesc: describe_dataframe applied to a table with      *)
(* columns of every dtype.                                                 *)

InitDesc ==
    /\ pc = "input"
    /\ CorrTable(df)
    /\ cm = << >>
    /\ out = << >>
    /\ RunIdle

DescribeDataframe ==
    /\ pc = "input"
    /\ pc' = "describe_dataframe"
    /\ out' = describe_dataframe(df)
    /\ UNCHANGED <<df, cm>>
    /\ UNCHANGED runVars

NextDesc == DescribeDataframe

SpecDesc == InitDesc /\ [][NextDesc]_vars

-----------------------------------------------------------------------------
(* Properties of describe_dataframe.                                       *)

Defined(x) == x.k \in {"fin", "number"}

\* C14: for every numeric column each of mean, median, std, min, max,
\* skewness and kurtosis is null when all the column's values are missing
\* and a defined number (never NaN) otherwise; for every other column
\* without a non-missing value most_common is null and most_common_count 0.
C14_StatisticsNullOrDefined ==
    (pc = "describe_dataframe" /\ out.raised = "none") =>
        \A j \in ColIdx(df) :
            LET s == out.columns[j].stats
            IN  IF is_numeric(df.cols[j].dtype)
                THEN \A x \in {s.mean, s.median, s.std, s.min, s.max,
                               s.skewness, s.kurtosis} :
                        IF Present(df, j) = {} THEN x = None ELSE Defined(x)
                ELSE Present(df, j) = {} =>
                        s.most_common = None /\ s.most_common_count = 0

-----------------------------------------------------------------------------
(* visualization.py and utils.limit_categories: every chart function, by   *)
(* the data it hands to the plotting library.                              *)

max_categories == 20

\* The label "Other", different from every value of a table.
OtherLabel == -1

\* The first position of v in x.
FirstIndex(x, v) ==
    CHOOSE i \in DOMAIN x : x[i] = v /\ \A k \in 1..(i - 1) : x[k] # v

\* v comes before w in series.value_counts(dropna=True): more occurrences,
\* or as many and seen first.
CountsBefore(x, v, w) ==
    \/ Occurrences(x, v) > Occurrences(x, w)
    \/ /\ Occurrences(x, v) = Occurrences(x, w)
       /\ FirstIndex(x, v) < FirstIndex(x, w)

\* value_counts(dropna=True).nlargest(n).index
nlargest(x, n) ==
    {v \in {x[i] : i \in DOMAIN x} :
        Cardinality({w \in {x[i] : i \in DOMAIN x} : CountsBefore(x, w, v)})
            < n}

\* limit_categories: the series itself when it has at most n categories,
\* else a new series where every cell outside the n largest categories
\* (a missing cell included) holds "Other".
limit_categories(col, n) ==
    IF nunique(col) <= n THEN col.vals
    ELSE [i \in DOMAIN col.vals |->
            IF /\ ~IsNA(col.vals[i])
               /\ Val(col.vals[i]) \in nlargest(dropna(col.vals), n)
            THEN col.vals[i]
            ELSE Cell(OtherLabel)]

\* series.value_counts(dropna=False)
value_counts(vals) ==
    [c \in {vals[i] : i \in DOMAIN vals} |->
        Cardinality({i \in DOMAIN vals : vals[i] = c})]

Chart(prefix, col, data) ==
    [path |-> <<prefix, col.name>>, data |-> data]

histograms(t) ==
    [i \in DOMAIN get_numeric_columns(t) |->
        Chart("hist", t.cols[get_numeric_columns(t)[i]],
              dropna(t.cols[get_numeric_columns(t)[i]].vals))]

boxplots(t) ==
    [i \in DOMAIN get_numeric_columns(t) |->
        Chart("box", t.cols[get_numeric_columns(t)[i]],
              t.cols[get_numeric_columns(t)[i]].vals)]

violin_plots(t) ==
    [i \in DOMAIN get_numeric_columns(t) |->
        Chart("violin", t.cols[get_numeric_columns(t)[i]],
              t.cols[get_numeric_columns(t)[i]].vals)]

\* df[numeric_cols].dropna(): the rows without a missing numeric cell.
pairplot(t) ==
    IF Len(get_numeric_columns(t)) < 2 THEN None
    ELSE [k    |-> "pairplot",
          rows |-> SelectSeq([i \in 1..t.nrows |->
                                 SubRow(t, get_numeric_columns(t), i)],
                             LAMBDA r : \A j \in DOMAIN r : ~IsNA(r[j]))]

bar_charts(t) ==
    [i \in DOMAIN get_categorical_columns(t) |->
        Chart("bar", t.cols[get_categorical_columns(t)[i]],
              value_counts(limit_categories(
                  t.cols[get_categorical_columns(t)[i]], max_categories)))]

\* px.scatter(df, x=numeric_cols[0], y=numeric_cols[1]); px is None when
\* plotly is not installed.
interactive_scatter(t, px) ==
    IF ~px \/ Len(get_numeric_columns(t)) < 2 THEN None
    ELSE [k |-> "scatter",
          x |-> t.cols[get_numeric_columns(t)[1]].vals,
          y |-> t.cols[get_numeric_columns(t)[2]].vals]

\* msno.matrix(df): the nullity matrix; msno is None when missingno is not
\* installed.
plot_missing_values(t, msno) ==
    IF ~msno THEN None
    ELSE [k      |-> "matrix",
          isnull |-> [j \in ColIdx(t) |->
                        [i \in 1..t.nrows |-> IsNA(t.cols[j].vals[i])]]]

\* msno.bar(df): one bar per column, as high as the number of cells that are
\* not missing; msno is None when missingno is not installed.
plot_missing_bar(t, msno) ==
    IF ~msno THEN None
    ELSE [k     |-> "bar",
          count |-> [j \in ColIdx(t) |-> Len(dropna(t.cols[j].vals))]]

-----------------------------------------------------------------------------
(* Specification SpecFrame: each step of build_report that receives the    *)
(* loaded table, and plot_missing_bar, applied to it.                      *)

\* One object column of 21 categories: 1..20 twice each, then 21 once.
ManyCategories ==
    [nrows |-> 2 * max_categories + 1,
     cols |-> <<[name |-> "a", dtype |-> "object",
                 vals |-> [i \in 1..(2 * max_categories + 1) |->
                             Cell(((i - 1) % max_categories) + 1
                                  + (IF i > 2 * max_categories
                                     THEN max_categories ELSE 0))]]>>]

\* The two optional plotting libraries are installed or not.
InitFrame ==
    /\ pc = "input"
    /\ CleanTable(df) \/ df = ManyCategories
    /\ cm = << >>
    /\ out = << >>
    /\ argv = [exists |-> TRUE, suffix |-> csv, profile |-> FALSE]
    /\ mods \in [px : BOOLEAN, msno : BOOLEAN, ProfileReport : {FALSE},
                 sv : {FALSE}]
    /\ load_result = "ok"
    /\ log = << >>
    /\ exit_code = Running
    /\ files = [f \in OutFiles |-> 0]
    /\ called = << >>
    /\ report = NoReport
    /\ profiled = [p \in {"ydata", "sweetviz"} |-> "not_attempted"]
    /\ raised = {}

Histograms ==
    /\ pc = "input"
    /\ pc' = "histograms"
    /\ out' = histograms(df)
    /\ UNCHANGED <<df, cm, runVars>>

Boxplots ==
    /\ pc = "input"
    /\ pc' = "boxplots"
    /\ out' = boxplots(df)
    /\ UNCHANGED <<df, cm, runVars>>

ViolinPlots ==
    /\ pc = "input"
    /\ pc' = "violin_plots"
    /\ out' = violin_plots(df)
    /\ UNCHANGED <<df, cm, runVars>>

Pairplot ==
    /\ pc = "input"
    /\ pc' = "pairplot"
    /\ out' = pairplot(df)
    /\ UNCHANGED <<df, cm, runVars>>

\* bar_charts with the limited series stored back into the table:
\* df[col] = limit_categories(df[col]).
BarChartsInPlace ==
    /\ pc = "input"
    /\ pc' = "bar_charts"
    /\ out' = bar_charts(df)
    /\ df' = [df EXCEPT !.cols =
                [j \in ColIdx(df) |->
                    IF is_categorical(df.cols[j])
                    THEN [df.cols[j] EXCEPT !.vals =
                            limit_categories(df.cols[j], max_categories)]
                    ELSE df.cols[j]]]
    /\ UNCHANGED <<cm, runVars>>

\* bar_charts: the limited series is a local of the loop.
BarCharts ==
    /\ pc = "input"
    /\ pc' = "bar_charts"
    /\ out' = bar_charts(df)
    /\ UNCHANGED <<df, cm, runVars>>

\* A chart function that returned chart (None: no chart) after writing
\* file, or whose library raised: the exception is not caught.
Rendered(fn, lib, file, chart) ==
    IF chart = None
    THEN /\ pc' = fn
         /\ out' = chart
         /\ UNCHANGED <<files, raised, exit_code>>
    ELSE \/ /\ pc' = fn
            /\ out' = chart
            /\ Wrote(file)
            /\ UNCHANGED <<raised, exit_code>>
         \/ /\ raised' = raised \cup {lib}
            /\ Uncaught
            /\ UNCHANGED <<out, files>>

\* interactive_scatter: px.scatter, then fig.write_html.
ScatterOfFrame ==
    /\ pc = "input"
    /\ Rendered("interactive_scatter", "plotly", "interactive_scatter.html",
                interactive_scatter(df, mods.px))
    /\ UNCHANGED <<df, cm, argv, mods, load_result, log, called, report,
                   profiled>>

\* plot_missing_values: msno.matrix, then fig.savefig.
MissingMatrixOfFrame ==
    /\ pc = "input"
    /\ Rendered("plot_missing_values", "missingno", "missing_matrix.png",
                plot_missing_values(df, mods.msno))
    /\ UNCHANGED <<df, cm, argv, mods, load_result, log, called, report,
                   profiled>>

\* plot_missing_bar: msno.bar, then fig.savefig to the path it is given.
MissingBarOfFrame ==
    /\ pc = "input"
    /\ Rendered("plot_missing_bar", "missingno", "missing_bar.png",
                plot_missing_bar(df, mods.msno))
    /\ UNCHANGED <<df, cm, argv, mods, load_result, log, called, report,
                   profiled>>

NextFrame ==
    \/ MissingValueSummary
    \/ DuplicateRowsSummary
    \/ DescribeDataframe
    \/ NumericCorrelation
    \/ CategoricalCorrelation
    \/ Histograms
    \/ Boxplots
    \/ ViolinPlots
    \/ Pairplot
    \/ BarCharts
    \/ ScatterOfFrame
    \/ MissingMatrixOfFrame
    \/ MissingBarOfFrame

SpecFrame == InitFrame /\ [][NextFrame]_vars

-----------------------------------------------------------------------------
(* The frame of the analysis and rendering steps.                          *)

\* C15: every analysis and rendering step build_report invokes
\* (missing_value_summary, duplicate_rows_summary, describe_dataframe,
\* numeric_correlation, categorical_correlation and the chart functions)
\* leaves the loaded table unchanged.
C15_TableUnchanged == [][df' = df]_vars

\* bar_charts has replaced the categories beyond the 20 largest by "Other"
\* in the series it plots, and the table still holds all of them.
C15_Witness ==
    /\ pc = "bar_charts"
    /\ df = ManyCategories
    /\ nunique(df.cols[1]) > max_categories
    /\ Cell(OtherLabel) \in DOMAIN out[1].data
    /\ \A i \in 1..df.nrows : df.cols[1].vals[i] # Cell(OtherLabel)

=============================================================================
